---- MODULE Spec2Model ----
(***************************************************************************)
(* Medication adherence engine of Next_Gen_Rakshak: the SQLite record      *)
(* store (Medicines, MedicineLogs, AdherenceStats), the medicine and stock *)
(* services that write it, the medicine detail screen that drives them,    *)
(* and the adherence / adaptive-reminder computations that read it.        *)
(*                                                                         *)
(* Timestamps (ISO strings in the store) are integers counting seconds;    *)
(* date(ts) is the day number ts \div SecondsPerDay.                       *)
(***************************************************************************)
EXTENDS Integers, Sequences, FiniteSets, TLC

\* ------------------------------------------------------------------ bounds
MaxPatients == 2
MaxMedicines == 2
MaxLogs == 2
MaxStock == 2
MaxStats == 3
MaxDays == 1

\* ------------------------------------------------------- program constants
SecondsPerMinute == 60
SecondsPerDay == 86400
NULL == -1
NoId == 0

Patients == 1..MaxPatients
StartDay == 40
Statuses == {"pending", "taken", "missed", "skipped"}

VARIABLES
  now,              \* the wall clock, new Date(), in seconds
  Users,            \* table Users: id -> [role]
  Relationships,    \* table Relationships: id -> [patientId, doctorId]
  Medicines,        \* table Medicines: id -> [patientId, stock]
  MedicineLogs,     \* table MedicineLogs: id -> row
  AdherenceStats,   \* table AdherenceStats: id -> row
  seqMedicines,     \* AUTOINCREMENT counters (sqlite_sequence)
  seqMedicineLogs,
  seqAdherenceStats,
  sent,             \* instant stock notifications delivered so far
  deleting,         \* deleteMedicine between its two statements: the id, or NoId
  medicine,         \* MedicineDetailScreen state: <<the loaded medicine row>>, or <<>> for null
  logs,             \* MedicineDetailScreen state: the loaded log rows
  handlers,         \* handleTakeMedicine invocations in flight
  hist,             \* history: fresh = patients whose stats were recomputed since
                    \* the dose logs or the date last changed; deleted = medicines
                    \* whose deleteMedicine has completed; stock0 = the stock the
                    \* screen scenario started from
  result,           \* value returned by the last read operation
  db,               \* database.ts `let db`: the cached handle, or NULL
  seqHandles,       \* handles openDatabaseAsync has created so far
  opens,            \* history: openDatabaseAsync invocations since the handle
                    \* was last closed (or since the start)
  callers,          \* getDatabase / closeDatabase calls: caller -> [pc, handle]
  scheduled,        \* the notifications the platform scheduler holds
  seqScheduled,     \* identifiers the platform scheduler has handed out
  rescheduling      \* rescheduleAllAdaptiveReminders in flight, or Idle

vars == <<now, Users, Relationships, Medicines, MedicineLogs, AdherenceStats, seqMedicines,
          seqMedicineLogs, seqAdherenceStats, sent, deleting, medicine, logs,
          handlers, hist, result, db, seqHandles, opens, callers, scheduled,
          seqScheduled, rescheduling>>

storeVars == <<Medicines, MedicineLogs, AdherenceStats, seqMedicines,
               seqMedicineLogs, seqAdherenceStats>>
screenVars == <<medicine, logs, handlers>>
userVars == <<Users, Relationships>>
dbVars == <<db, seqHandles, opens, callers>>
osVars == <<scheduled, seqScheduled, rescheduling>>
sysVars == <<dbVars, osVars>>

\* the concurrent callers of getDatabase and closeDatabase
MaxCallers == 2
Callers == 1..MaxCallers

\* no rescheduleAllAdaptiveReminders is running
Idle == [pc |-> "idle"]

\* date(ts): the calendar date of a timestamp
DateOf(ts) == ts \div SecondsPerDay

\* new Date().toISOString().split('T')[0]
Today == DateOf(now)

\* ------------------------------------------------ IEEE-754 double arithmetic
\* A JavaScript number is the dyadic rational int(bits) / 2^f: bits is its
\* binary numeral, most significant bit first, without leading zeros and,
\* in canonical form, without trailing zeros; the number 0 is [<<>>, 0].
\* Every operation rounds its exact result to MantissaBits significant bits,
\* ties to even, as the hardware does. The operators work on the numerals
\* directly, so no intermediate value leaves the range of the integers.
MantissaBits == 53
IntBits == 31
LimbBits == 20

RECURSIVE Pow2(_)
Pow2(n) ==
  IF n = 0 THEN 1
  ELSE LET h == Pow2(n \div 2) IN IF n % 2 = 0 THEN h * h ELSE 2 * h * h

\* 2^n modulo b
RECURSIVE PowMod(_, _)
PowMod(n, b) ==
  IF n = 0 THEN 1 % b
  ELSE LET h == PowMod(n \div 2, b)
       IN  IF n % 2 = 0 THEN (h * h) % b ELSE (2 * h * h) % b

\* the highest index holding bit v, 0 when there is none
LastIndexOf(bits, v) ==
  LET hits == {i \in 1..Len(bits) : bits[i] = v}
  IN  IF hits = {} THEN 0 ELSE CHOOSE i \in hits : \A j \in hits : j <= i

\* the lowest index holding bit v, 0 when there is none
FirstIndexOf(bits, v) ==
  LET hits == {i \in 1..Len(bits) : bits[i] = v}
  IN  IF hits = {} THEN 0 ELSE CHOOSE i \in hits : \A j \in hits : i <= j

StripLeading(bits) ==
  LET p == FirstIndexOf(bits, 1)
  IN  IF p = 0 THEN <<>> ELSE SubSeq(bits, p, Len(bits))

\* n as a numeral of exactly w bits
FixedBits(n, w) == [i \in 1..w |-> (n \div Pow2(w - i)) % 2]

ToBits(n) == StripLeading(FixedBits(n, IntBits))

RECURSIVE BitsToInt(_)
BitsToInt(bits) ==
  IF bits = <<>> THEN 0
  ELSE IF Len(bits) = 1 THEN bits[1]
  ELSE LET h == Len(bits) \div 2
       IN  BitsToInt(SubSeq(bits, 1, h)) * Pow2(Len(bits) - h)
             + BitsToInt(SubSeq(bits, h + 1, Len(bits)))

\* the numeral plus one: the last 0 becomes 1 and the 1s after it become 0
IncBits(bits) ==
  LET p == LastIndexOf(bits, 0)
  IN  IF p = 0 THEN <<1>> \o [i \in 1..Len(bits) |-> 0]
      ELSE [i \in 1..Len(bits) |-> IF i < p THEN bits[i] ELSE IF i = p THEN 1 ELSE 0]

\* canonical form: no trailing zero bits
Canon(x) ==
  LET p == LastIndexOf(x.bits, 1)
  IN  IF p = 0 THEN [bits |-> <<>>, f |-> 0]
      ELSE [bits |-> SubSeq(x.bits, 1, p), f |-> x.f - (Len(x.bits) - p)]

AllZero(bits) == \A i \in 1..Len(bits) : bits[i] = 0

\* round an exact numeral to MantissaBits significant bits, ties to even
Round53(x) ==
  IF Len(x.bits) <= MantissaBits THEN Canon(x)
  ELSE LET kept == SubSeq(x.bits, 1, MantissaBits)
           dropped == SubSeq(x.bits, MantissaBits + 1, Len(x.bits))
           rest == SubSeq(dropped, 2, Len(dropped))
           up == dropped[1] = 1 /\ (~AllZero(rest) \/ kept[MantissaBits] = 1)
           f2 == x.f - Len(dropped)
       IN  Canon([bits |-> IF up THEN IncBits(kept) ELSE kept, f |-> f2])

\* the double of a non-negative integer small enough to be exact
FromInt(n) == Canon([bits |-> ToBits(n), f |-> 0])

\* long division: the remainder left after i fraction bits of a / b, and
\* fraction bit i of the quotient
DivRem(a, b, i) == ((a % b) * PowMod(i, b)) % b
DivBit(a, b, i) == (2 * DivRem(a, b, i - 1)) \div b

\* a / b in double arithmetic, for integers a >= 0, b > 0: the quotient's
\* first MantissaBits significant bits, rounded on the remainder left
FDiv(a, b) ==
  LET whole == ToBits(a \div b)
      \* fraction bits before the first significant one
      skip == IF whole # <<>> \/ a % b = 0 THEN 0
              ELSE (CHOOSE i \in 1..IntBits :
                      DivBit(a, b, i) = 1 /\ \A j \in 1..(i - 1) : DivBit(a, b, j) = 0) - 1
      n == MantissaBits - Len(whole)
      bits == whole \o [i \in 1..n |-> DivBit(a, b, skip + i)]
      rem == DivRem(a, b, skip + n)
      up == 2 * rem > b \/ (2 * rem = b /\ bits[MantissaBits] = 1)
  IN  IF a % b = 0 THEN FromInt(a \div b)
      ELSE Canon([bits |-> IF up THEN IncBits(bits) ELSE bits, f |-> skip + n])

\* limb j (from the right, LimbBits bits each) of a numeral
Limb(bits, j) ==
  LET hi == Len(bits) - LimbBits * j
      lo == IF hi - LimbBits + 1 < 1 THEN 1 ELSE hi - LimbBits + 1
  IN  BitsToInt(SubSeq(bits, lo, hi))

\* exact product of a numeral and a small integer k, limb by limb from the
\* right with the carry handed leftward
RECURSIVE MulLimbs(_, _, _, _)
MulLimbs(bits, k, j, carry) ==
  IF LimbBits * j >= Len(bits) THEN FixedBits(carry, IntBits)
  ELSE LET t == Limb(bits, j) * k + carry
       IN  MulLimbs(bits, k, j + 1, t \div Pow2(LimbBits))
             \o FixedBits(t % Pow2(LimbBits), LimbBits)

\* the bits of the product hold the numeral's own bits in full limbs
MulBits(bits, k) ==
  LET pad == (LimbBits - (Len(bits) % LimbBits)) % LimbBits
  IN  StripLeading(MulLimbs([i \in 1..pad |-> 0] \o bits, k, 0, 0))

\* x * k in double arithmetic, k a small non-negative integer
FMulInt(x, k) == Round53([bits |-> MulBits(x.bits, k), f |-> x.f])

Zeros(n) == [i \in 1..n |-> 0]

\* the numerals of two doubles over a common exponent f, padded on the left
\* to the same whole number of limbs
Aligned(x, y) ==
  LET f == IF x.f > y.f THEN x.f ELSE y.f
      a == x.bits \o Zeros(f - x.f)
      b == y.bits \o Zeros(f - y.f)
      m == IF Len(a) > Len(b) THEN Len(a) ELSE Len(b)
      n == LimbBits * ((m + LimbBits - 1) \div LimbBits)
  IN  [a |-> Zeros(n - Len(a)) \o a, b |-> Zeros(n - Len(b)) \o b, f |-> f]

\* -1, 0 or 1 as numeral a is below, equal to or above numeral b of the same
\* length, decided at the highest limb that differs, from limb j down
RECURSIVE CmpLimbs(_, _, _)
CmpLimbs(a, b, j) ==
  IF j < 0 THEN 0
  ELSE IF Limb(a, j) < Limb(b, j) THEN -1
  ELSE IF Limb(a, j) > Limb(b, j) THEN 1
  ELSE CmpLimbs(a, b, j - 1)

\* x < y for non-negative doubles
FLess(x, y) ==
  LET al == Aligned(x, y)
  IN  CmpLimbs(al.a, al.b, Len(al.a) \div LimbBits - 1) = -1

\* exact sum of two numerals of the same length, limb by limb from the right
RECURSIVE AddLimbs(_, _, _, _)
AddLimbs(a, b, j, carry) ==
  IF LimbBits * j >= Len(a) THEN <<carry>>
  ELSE LET t == Limb(a, j) + Limb(b, j) + carry
       IN  AddLimbs(a, b, j + 1, t \div Pow2(LimbBits))
             \o FixedBits(t % Pow2(LimbBits), LimbBits)

\* exact difference a - b of two numerals of the same length, a >= b
RECURSIVE SubLimbs(_, _, _, _)
SubLimbs(a, b, j, borrow) ==
  IF LimbBits * j >= Len(a) THEN <<>>
  ELSE LET t == Limb(a, j) - Limb(b, j) - borrow
       IN  SubLimbs(a, b, j + 1, IF t < 0 THEN 1 ELSE 0)
             \o FixedBits(IF t < 0 THEN t + Pow2(LimbBits) ELSE t, LimbBits)

\* x + y exactly, for non-negative doubles
ExactAdd(x, y) ==
  LET al == Aligned(x, y)
  IN  Canon([bits |-> StripLeading(AddLimbs(al.a, al.b, 0, 0)), f |-> al.f])

\* x - y exactly, for doubles x >= y >= 0
ExactSub(x, y) ==
  LET al == Aligned(x, y)
  IN  Canon([bits |-> StripLeading(SubLimbs(al.a, al.b, 0, 0)), f |-> al.f])

\* x + y and x - y in double arithmetic
FAdd(x, y) == Round53(ExactAdd(x, y))
FSub(x, y) == Round53(ExactSub(x, y))

\* quotient and remainder of a numeral by a small integer k, limb by limb
\* from the left (limb j first) with the remainder handed rightward
RECURSIVE DivLimbs(_, _, _, _)
DivLimbs(bits, k, j, rem) ==
  IF j < 0 THEN [bits |-> <<>>, rem |-> rem]
  ELSE LET t == rem * Pow2(LimbBits) + Limb(bits, j)
           rest == DivLimbs(bits, k, j - 1, t % k)
       IN  [bits |-> FixedBits(t \div k, LimbBits) \o rest.bits, rem |-> rest.rem]

\* x / k in double arithmetic, k a small positive integer: the quotient of
\* the numeral extended by MantissaBits + 3 bits holds more than
\* MantissaBits + 1 significant bits; a last bit tells whether a remainder
\* was left, so that the rounding sees the exact quotient's side of a tie
FDivInt(x, k) ==
  LET ext == x.bits \o Zeros(MantissaBits + 3)
      pad == (LimbBits - (Len(ext) % LimbBits)) % LimbBits
      num == Zeros(pad) \o ext
      q == DivLimbs(num, k, Len(num) \div LimbBits - 1, 0)
      sticky == IF q.rem = 0 THEN 0 ELSE 1
  IN  IF x.bits = <<>> THEN x
      ELSE Round53([bits |-> StripLeading(q.bits) \o <<sticky>>,
                    f |-> x.f + MantissaBits + 3 + 1])

\* Math.round of a non-negative double: the nearest integer, halves upward
MathRound(x) ==
  LET L == Len(x.bits)
  IN  IF x.f <= 0 THEN BitsToInt(x.bits) * Pow2(0 - x.f)
      ELSE IF L < x.f THEN 0
      ELSE BitsToInt(SubSeq(x.bits, 1, L - x.f)) + x.bits[L - x.f + 1]

\* Math.round((taken / total) * 100)
RoundedPercent(taken, total) == MathRound(FMulInt(FDiv(taken, total), 100))

\* ---------------------------------------------------------- the record store
\* rows of MedicineLogs that a WHERE clause selects
LogIds == DOMAIN MedicineLogs

\* SELECT COUNT(*) as total, SUM(CASE WHEN status = 'taken' ...) as taken
\* FROM MedicineLogs WHERE patientId = ? AND date(scheduledTime) = date(?)
CountOn(patientId, date) ==
  LET rows == {l \in LogIds :
                /\ MedicineLogs[l].patientId = patientId
                /\ DateOf(MedicineLogs[l].scheduledTime) = date}
  IN  [total |-> Cardinality(rows),
       taken |-> Cardinality({l \in rows : MedicineLogs[l].status = "taken"})]

\* ... WHERE patientId = ? AND date(scheduledTime) >= date(?)
CountSince(patientId, date) ==
  LET rows == {l \in LogIds :
                /\ MedicineLogs[l].patientId = patientId
                /\ DateOf(MedicineLogs[l].scheduledTime) >= date}
  IN  [total |-> Cardinality(rows),
       taken |-> Cardinality({l \in rows : MedicineLogs[l].status = "taken"})]

\* a function with one more (or one replaced) entry
Put(f, k, v) == [x \in DOMAIN f \cup {k} |-> IF x = k THEN v ELSE f[x]]
\* a function without the entries in ks
Drop(f, ks) == [x \in DOMAIN f \ ks |-> f[x]]

\* --------------------------------------------------------- medicineService
\* values a caller can pass as a stock count (a JavaScript number)
StockInputs == (0 - 1)..MaxStock

addMedicine(patientId, stock) ==
  /\ seqMedicines < MaxMedicines
  /\ seqMedicines' = seqMedicines + 1
  /\ Medicines' = Put(Medicines, seqMedicines + 1,
                      [patientId |-> patientId, stock |-> stock])
  /\ UNCHANGED hist
  /\ UNCHANGED <<now, userVars, MedicineLogs, AdherenceStats, seqMedicineLogs,
                 seqAdherenceStats, sent, sysVars, deleting, screenVars, result>>

\* UPDATE Medicines SET stock = ? WHERE id = ?
SetStock(medicineId, stock) ==
  IF medicineId \in DOMAIN Medicines
  THEN [Medicines EXCEPT ![medicineId].stock = stock]
  ELSE Medicines

updateMedicineStock(medicineId, stock) ==
  /\ Medicines' = SetStock(medicineId, stock)
  /\ UNCHANGED hist
  /\ UNCHANGED <<now, userVars, MedicineLogs, AdherenceStats, seqMedicines,
                 seqMedicineLogs, seqAdherenceStats, sent, sysVars, deleting,
                 screenVars, result>>

\* deleteMedicine, first statement: DELETE FROM MedicineLogs WHERE medicineId = ?
deleteMedicineLogs(medicineId) ==
  /\ deleting = NoId
  /\ deleting' = medicineId
  /\ MedicineLogs' = Drop(MedicineLogs,
                          {l \in LogIds : MedicineLogs[l].medicineId = medicineId})
  /\ hist' = [hist EXCEPT !.fresh = {}]
  /\ UNCHANGED <<now, userVars, Medicines, AdherenceStats, seqMedicines, seqMedicineLogs,
                 seqAdherenceStats, sent, sysVars, screenVars, result>>

\* deleteMedicine, second statement: DELETE FROM Medicines WHERE id = ?
deleteMedicineRow ==
  /\ deleting # NoId
  /\ deleting' = NoId
  /\ Medicines' = Drop(Medicines, {deleting})
  /\ hist' = [hist EXCEPT !.deleted = @ \cup {deleting}]
  /\ UNCHANGED <<now, userVars, MedicineLogs, AdherenceStats, seqMedicines,
                 seqMedicineLogs, seqAdherenceStats, sent, sysVars, screenVars, result>>

createMedicineLog(medicineId, patientId, scheduledTime) ==
  /\ seqMedicineLogs < MaxLogs
  /\ seqMedicineLogs' = seqMedicineLogs + 1
  /\ MedicineLogs' = Put(MedicineLogs, seqMedicineLogs + 1,
                         [medicineId |-> medicineId, patientId |-> patientId,
                          scheduledTime |-> scheduledTime, takenAt |-> NULL,
                          status |-> "pending"])
  /\ hist' = [hist EXCEPT !.fresh = {}]
  /\ UNCHANGED <<now, userVars, Medicines, AdherenceStats, seqMedicines,
                 seqAdherenceStats, sent, sysVars, deleting, screenVars, result>>

\* ------------------------------------------------------------ stockService
\* UPDATE Medicines SET stock = CASE WHEN stock > 0 THEN stock - 1 ELSE 0 END
Decremented(stock) == IF stock > 0 THEN stock - 1 ELSE 0

\* the Medicines table after decrementStock(medicineId)
DecrementedStock(medicineId) ==
  IF medicineId \in DOMAIN Medicines
  THEN [Medicines EXCEPT ![medicineId].stock = Decremented(@)]
  ELSE Medicines

\* the instant notifications delivered after checkAndNotifyLowStock has
\* decremented the stock to the table meds
AfterLowStockCheck(meds, medicineId) ==
  IF medicineId \in DOMAIN meds /\ meds[medicineId].stock <= 2
  THEN sent \cup {[medicineId |-> medicineId,
                   currentStock |-> meds[medicineId].stock]}
  ELSE sent

updateStock(medicineId, newStock) ==
  /\ Medicines' = SetStock(medicineId, newStock)
  /\ UNCHANGED hist
  /\ UNCHANGED <<now, userVars, MedicineLogs, AdherenceStats, seqMedicines,
                 seqMedicineLogs, seqAdherenceStats, sent, sysVars, deleting,
                 screenVars, result>>

decrementStock(medicineId) ==
  /\ Medicines' = DecrementedStock(medicineId)
  /\ UNCHANGED hist
  /\ UNCHANGED <<now, userVars, MedicineLogs, AdherenceStats, seqMedicines,
                 seqMedicineLogs, seqAdherenceStats, sent, sysVars, deleting,
                 screenVars, result>>

\* --------------------------------------------- dose status (medicineService)
\* UPDATE MedicineLogs SET status = 'taken', takenAt = ?, notes = ? WHERE id = ?
\* followed by checkAndNotifyLowStock(log.medicineId, log.patientId)
TakenLogs(logId) ==
  [MedicineLogs EXCEPT ![logId].status = "taken", ![logId].takenAt = now]

\* what markMedicineTaken(logId) does to the store: the UPDATE changes no row
\* and the stock check is skipped when the log does not exist
MarkTaken(logId) ==
  IF logId \in LogIds
  THEN /\ MedicineLogs' = TakenLogs(logId)
       /\ Medicines' = DecrementedStock(MedicineLogs[logId].medicineId)
       /\ sent' = AfterLowStockCheck(Medicines', MedicineLogs[logId].medicineId)
  ELSE UNCHANGED <<MedicineLogs, Medicines, sent>>

markMedicineTaken(logId) ==
  /\ logId \in LogIds
  /\ MarkTaken(logId)
  /\ hist' = [hist EXCEPT !.fresh = {}]
  /\ UNCHANGED <<now, sysVars, userVars, AdherenceStats, seqMedicines, seqMedicineLogs,
                 seqAdherenceStats, deleting, screenVars, result>>

\* UPDATE MedicineLogs SET status = 'missed' WHERE id = ?
MissedLogs(logId) == [MedicineLogs EXCEPT ![logId].status = "missed"]

markMedicineMissed(logId) ==
  /\ logId \in LogIds
  /\ MedicineLogs' = MissedLogs(logId)
  /\ hist' = [hist EXCEPT !.fresh = {}]
  /\ UNCHANGED <<now, userVars, Medicines, AdherenceStats, seqMedicines, seqMedicineLogs,
                 seqAdherenceStats, sent, sysVars, deleting, screenVars, result>>

\* UPDATE MedicineLogs SET status = 'skipped', notes = ? WHERE id = ?
SkippedLogs(logId) == [MedicineLogs EXCEPT ![logId].status = "skipped"]

markMedicineSkipped(logId) ==
  /\ logId \in LogIds
  /\ MedicineLogs' = SkippedLogs(logId)
  /\ hist' = [hist EXCEPT !.fresh = {}]
  /\ UNCHANGED <<now, userVars, Medicines, AdherenceStats, seqMedicines, seqMedicineLogs,
                 seqAdherenceStats, sent, sysVars, deleting, screenVars, result>>

\* ------------------------------------------------------ adherence statistics
\* (takenDoses / totalDoses) * 100, or 100 without doses: a double
StatRate(c) == IF c.total > 0 THEN FMulInt(FDiv(c.taken, c.total), 100)
               ELSE FromInt(100)

\* the row updateAdherenceStats writes for patientId today
StatRow(patientId) ==
  LET c == CountOn(patientId, Today)
  IN  [patientId |-> patientId, date |-> Today, totalDoses |-> c.total,
       takenDoses |-> c.taken, adherenceRate |-> StatRate(c)]

\* INSERT OR REPLACE INTO AdherenceStats (patientId, date, ...) VALUES (...):
\* the table's only key is its AUTOINCREMENT id, which the statement does not
\* give, so no existing row conflicts and the row is inserted under a new id
InsertOrReplaceStat(row) == Put(AdherenceStats, seqAdherenceStats + 1, row)

updateAdherenceStats(patientId) ==
  /\ seqAdherenceStats < MaxStats
  /\ seqAdherenceStats' = seqAdherenceStats + 1
  /\ AdherenceStats' = InsertOrReplaceStat(StatRow(patientId))
  /\ hist' = [hist EXCEPT !.fresh = @ \cup {patientId}]
  /\ UNCHANGED <<now, userVars, Medicines, MedicineLogs, seqMedicines, seqMedicineLogs,
                 sent, sysVars, deleting, screenVars, result>>

\* ------------------------------------------------------- adherence windows
WeeklyWindowDays == 7
MonthlyWindowDays == 30

\* if (!result || result.total === 0) return 100;
\* return Math.round((result.taken / result.total) * 100)
RateOf(c) == IF c.total = 0 THEN 100 ELSE RoundedPercent(c.taken, c.total)

\* today's rate
AdherenceRate(patientId) == RateOf(CountOn(patientId, Today))

\* the rate over the logs scheduled from seven days ago on
WeeklyAdherence(patientId) ==
  RateOf(CountSince(patientId, Today - WeeklyWindowDays))

\* the report over the logs scheduled from thirty days ago on
AdherenceDetails(patientId) ==
  LET rows == {l \in LogIds :
                /\ MedicineLogs[l].patientId = patientId
                /\ DateOf(MedicineLogs[l].scheduledTime) >= Today - MonthlyWindowDays}
      n(status) == Cardinality({l \in rows : MedicineLogs[l].status = status})
      totalDoses == Cardinality(rows)
  IN  [adherencePercentage |->
         IF totalDoses > 0 THEN RoundedPercent(n("taken"), totalDoses) ELSE 100,
       skipRate |->
         IF totalDoses > 0 THEN RoundedPercent(n("skipped"), totalDoses) ELSE 0,
       missedCount |-> n("missed"),
       weeklyAdherence |-> WeeklyAdherence(patientId),
       totalDoses |-> totalDoses,
       takenDoses |-> n("taken"),
       skippedDoses |-> n("skipped"),
       missedDoses |-> n("missed")]

calculateAdherenceRate(patientId) ==
  /\ result' = [op |-> "calculateAdherenceRate", patientId |-> patientId,
                value |-> AdherenceRate(patientId)]
  /\ UNCHANGED <<now, userVars, storeVars, sent, sysVars, deleting, screenVars, hist>>

calculateWeeklyAdherence(patientId) ==
  /\ result' = [op |-> "calculateWeeklyAdherence", patientId |-> patientId,
                value |-> WeeklyAdherence(patientId)]
  /\ UNCHANGED <<now, userVars, storeVars, sent, sysVars, deleting, screenVars, hist>>

calculateAdherenceDetails(patientId) ==
  /\ result' = [op |-> "calculateAdherenceDetails", patientId |-> patientId,
                value |-> AdherenceDetails(patientId)]
  /\ UNCHANGED <<now, userVars, storeVars, sent, sysVars, deleting, screenVars, hist>>

\* -------------------------------------------------- adaptiveTimeService
MIN_DAYS_FOR_ADAPTIVE == 3
MAX_DAYS_TO_ANALYZE == 5

\* SELECT * FROM MedicineLogs WHERE patientId = ? AND medicineId = ?
\* AND status = 'taken' AND takenAt IS NOT NULL AND date(scheduledTime) >= date(?)
AnalyzedLogs(patientId, medicineId) ==
  {l \in LogIds :
     /\ MedicineLogs[l].patientId = patientId
     /\ MedicineLogs[l].medicineId = medicineId
     /\ MedicineLogs[l].status = "taken"
     /\ MedicineLogs[l].takenAt # NULL
     /\ DateOf(MedicineLogs[l].scheduledTime) >= Today - MAX_DAYS_TO_ANALYZE}

\* mutant: early doses subtract from the sum
RECURSIVE PositiveDelay_Signed(_)
PositiveDelay_Signed(ids) ==
  IF ids = {} THEN 0
  ELSE LET l == CHOOSE x \in ids : TRUE
       IN  (MedicineLogs[l].takenAt - MedicineLogs[l].scheduledTime)
           + PositiveDelay_Signed(ids \ {l})

\* the sum over ids of the positive delays, in seconds
RECURSIVE PositiveDelay(_)
PositiveDelay(ids) ==
  IF ids = {} THEN 0
  ELSE LET l == CHOOSE x \in ids : TRUE
           d == MedicineLogs[l].takenAt - MedicineLogs[l].scheduledTime
       IN  (IF d > 0 THEN d ELSE 0) + PositiveDelay(ids \ {l})

\* Math.round(totalDelayMinutes / logs.length). Timestamps of the model fall
\* on half minutes, so each delay in minutes and their sum are exact doubles
\* and the quotient is the one rounding the code performs.
RoundedMean(ids) ==
  MathRound(FDiv(PositiveDelay(ids), SecondsPerMinute * Cardinality(ids)))

\* too few logs: if (logs.length < MIN_DAYS_FOR_ADAPTIVE)
TooFew(n) == n < MIN_DAYS_FOR_ADAPTIVE

MeanDelay(patientId, medicineId) ==
  LET ids == AnalyzedLogs(patientId, medicineId)
  IN  IF TooFew(Cardinality(ids))
      THEN [meanDelay |-> 0, daysAnalyzed |-> Cardinality(ids)]
      ELSE [meanDelay |-> RoundedMean(ids), daysAnalyzed |-> Cardinality(ids)]

calculateMeanDelay(patientId, medicineId) ==
  /\ result' = [op |-> "calculateMeanDelay", patientId |-> patientId,
                medicineId |-> medicineId,
                value |-> MeanDelay(patientId, medicineId)]
  /\ UNCHANGED <<now, userVars, storeVars, sent, sysVars, deleting, screenVars, hist>>

\* getHours() and getMinutes() of a timestamp, rendered HH:MM
ClockOf(ts) == [hours |-> (ts % SecondsPerDay) \div 3600,
                minutes |-> (ts % 3600) \div SecondsPerMinute]

\* mutant: the threshold compared strictly
IsAdaptive_Strict(daysAnalyzed) == daysAnalyzed > MIN_DAYS_FOR_ADAPTIVE

\* isAdaptive: daysAnalyzed >= MIN_DAYS_FOR_ADAPTIVE
IsAdaptive(daysAnalyzed) == daysAnalyzed >= MIN_DAYS_FOR_ADAPTIVE

AdaptiveReminderTime(patientId, medicineId, scheduledTime) ==
  LET d == MeanDelay(patientId, medicineId)
  IN  [scheduledTime |-> scheduledTime,
       adaptiveTime |-> ClockOf(scheduledTime + d.meanDelay * SecondsPerMinute),
       meanDelay |-> d.meanDelay,
       isAdaptive |-> IsAdaptive(d.daysAnalyzed),
       daysAnalyzed |-> d.daysAnalyzed]

getAdaptiveReminderTime(patientId, medicineId, scheduledTime) ==
  /\ result' = [op |-> "getAdaptiveReminderTime", patientId |-> patientId,
                medicineId |-> medicineId,
                value |-> AdaptiveReminderTime(patientId, medicineId, scheduledTime)]
  /\ UNCHANGED <<now, userVars, storeVars, sent, sysVars, deleting, screenVars, hist>>

\* ------------------------------------- delay and time of day (part_003)
\* a timestamp text that neither SQLite's date() nor new Date() can parse:
\* date() gives NULL, so no comparison with it is true, and getTime() is NaN
InvalidDate == -2

\* SELECT * FROM MedicineLogs WHERE patientId = ? AND date(scheduledTime) >=
\* date(?) AND status = 'taken' AND takenAt IS NOT NULL
MonthlyTaken(patientId) ==
  {l \in LogIds :
     /\ MedicineLogs[l].patientId = patientId
     /\ MedicineLogs[l].scheduledTime # InvalidDate
     /\ DateOf(MedicineLogs[l].scheduledTime) >= Today - MonthlyWindowDays
     /\ MedicineLogs[l].status = "taken"
     /\ MedicineLogs[l].takenAt # NULL}

\* mutant: every log read counts as delayed
LateLogs_All(ids) == ids

\* the logs with delayMinutes > 0, which NaN is not
LateLogs(ids) ==
  {l \in ids :
     /\ MedicineLogs[l].takenAt # InvalidDate
     /\ MedicineLogs[l].takenAt - MedicineLogs[l].scheduledTime > 0}

\* countWithDelay > 0 ? Math.round(totalDelay / countWithDelay) : 0
AverageDelayTime(patientId) ==
  LET logRows == MonthlyTaken(patientId)
      late == LateLogs(logRows)
  IN  IF logRows = {} THEN 0
      ELSE IF Cardinality(late) > 0
      THEN MathRound(FDiv(PositiveDelay(logRows),
                          SecondsPerMinute * Cardinality(late)))
      ELSE 0

calculateAverageDelayTime(patientId) ==
  /\ result' = [op |-> "calculateAverageDelayTime", patientId |-> patientId,
                value |-> AverageDelayTime(patientId)]
  /\ UNCHANGED <<now, sysVars, userVars, storeVars, sent, deleting, screenVars, hist>>

\* SELECT * FROM MedicineLogs WHERE patientId = ? AND date(scheduledTime) >=
\* date(?) AND (status = 'missed' OR status = 'skipped')
MonthlyMisses(patientId) ==
  {l \in LogIds :
     /\ MedicineLogs[l].patientId = patientId
     /\ MedicineLogs[l].scheduledTime # InvalidDate
     /\ DateOf(MedicineLogs[l].scheduledTime) >= Today - MonthlyWindowDays
     /\ MedicineLogs[l].status \in {"missed", "skipped"}}

\* the if / else if chain over new Date(log.scheduledTime).getHours()
PeriodOf(hour) ==
  IF hour >= 6 /\ hour < 12 THEN "Morning"
  ELSE IF hour >= 12 /\ hour < 18 THEN "Afternoon"
  ELSE IF hour >= 18 /\ hour < 24 THEN "Evening"
  ELSE "Night"

\* Object.entries(timePeriods): the keys in the order they were inserted
Periods == <<"Morning", "Afternoon", "Evening", "Night">>

\* timePeriods[period] after the forEach over the logs
PeriodCount(ids, period) ==
  Cardinality({l \in ids :
                 PeriodOf(ClockOf(MedicineLogs[l].scheduledTime).hours) = period})

\* the forEach over the entries from entry k on: a count above maxCount
\* replaces maxPeriod
RECURSIVE MaxPeriod(_, _, _)
MaxPeriod(ids, k, max) ==
  IF k > Len(Periods) THEN max
  ELSE LET count == PeriodCount(ids, Periods[k])
       IN  MaxPeriod(ids, k + 1,
                     IF count > max.maxCount
                     THEN [maxPeriod |-> Periods[k], maxCount |-> count]
                     ELSE max)

NoMisses == "No misses recorded"

MostMissedTimePeriod(patientId) ==
  LET logRows == MonthlyMisses(patientId)
      max == MaxPeriod(logRows, 1, [maxPeriod |-> "Morning", maxCount |-> 0])
  IN  IF logRows = {} THEN NoMisses
      ELSE IF max.maxCount > 0 THEN max.maxPeriod ELSE NoMisses

getMostMissedTimePeriod(patientId) ==
  /\ result' = [op |-> "getMostMissedTimePeriod", patientId |-> patientId,
                value |-> MostMissedTimePeriod(patientId)]
  /\ UNCHANGED <<now, sysVars, userVars, storeVars, sent, deleting, screenVars, hist>>

\* ----------------------------------------------------------- authService
\* createDoctor with the code of an existing patient: the doctor's Users row,
\* then the Relationships row linking the doctor to the patient
MaxDoctors == 1

Doctors == {u \in DOMAIN Users : Users[u].role = "doctor"}

createDoctor(patientId) ==
  /\ Cardinality(Doctors) < MaxDoctors
  /\ patientId \in DOMAIN Users
  /\ Users[patientId].role = "patient"
  /\ LET doctorId == Len(Users) + 1
     IN  /\ Users' = Put(Users, doctorId, [role |-> "doctor"])
         /\ Relationships' = Put(Relationships, Len(Relationships) + 1,
                                 [patientId |-> patientId, doctorId |-> doctorId])
  /\ UNCHANGED <<now, storeVars, sent, sysVars, deleting, screenVars, hist, result>>

\* the ids of a set in descending order
RECURSIVE Descending(_)
Descending(ids) ==
  IF ids = {} THEN <<>>
  ELSE LET top == CHOOSE x \in ids : \A y \in ids : y <= x
       IN  <<top>> \o Descending(ids \ {top})

\* the ids of a set in ascending order
RECURSIVE Ascending(_)
Ascending(ids) ==
  IF ids = {} THEN <<>>
  ELSE LET low == CHOOSE x \in ids : \A y \in ids : x <= y
       IN  <<low>> \o Ascending(ids \ {low})

\* concatenation of f[1], ..., f[n], each a sequence
RECURSIVE Flatten(_, _)
Flatten(f, n) == IF n = 0 THEN <<>> ELSE Flatten(f, n - 1) \o f[n]

\* SELECT u.* FROM Users u INNER JOIN Relationships r ON u.id = r.patientId
\* WHERE r.doctorId = ?: one patient per matching relationship row
getPatientsByDoctor(doctorId) ==
  LET rows == Ascending({r \in DOMAIN Relationships :
                           /\ Relationships[r].doctorId = doctorId
                           /\ Relationships[r].patientId \in DOMAIN Users})
  IN  [i \in 1..Len(rows) |-> Relationships[rows[i]].patientId]

\* ----------------------------------------------------------- alertService
MissedThreshold == 3
LowStockThreshold == 5
CriticalStockThreshold == 2
LowAdherenceThreshold == 60
MediumAdherenceThreshold == 80

\* SELECT * FROM Medicines WHERE patientId = ? ORDER BY createdAt DESC:
\* the patient's medicines, the newest first
getMedicinesByPatient(patientId) ==
  Descending({m \in DOMAIN Medicines : Medicines[m].patientId = patientId})

\* the window's first date: thirtyDaysAgo.setDate(getDate() - 30)
MissedSince == Today - MonthlyWindowDays

\* SELECT COUNT(*) FROM MedicineLogs WHERE medicineId = ? AND patientId = ?
\* AND date(scheduledTime) >= date(?) AND status = 'missed'
getMissedCountByMedicine(medicineId, patientId) ==
  Cardinality({l \in LogIds :
                 /\ MedicineLogs[l].medicineId = medicineId
                 /\ MedicineLogs[l].patientId = patientId
                 /\ DateOf(MedicineLogs[l].scheduledTime) >= MissedSince
                 /\ MedicineLogs[l].status = "missed"})

\* if (missedCount >= 3)
MissedOften(missedCount) == missedCount >= MissedThreshold

getMedicinesMissed3Times(patientId) ==
  LET all == [i \in DOMAIN getMedicinesByPatient(patientId) |->
                [medicine |-> getMedicinesByPatient(patientId)[i],
                 missedCount |-> getMissedCountByMedicine(
                                   getMedicinesByPatient(patientId)[i], patientId)]]
  IN  SelectSeq(all, LAMBDA x : MissedOften(x.missedCount))

\* mutant: the list is returned as pushed
SortBySeverity_Unsorted(alerts) == alerts

\* alerts.sort by severityOrder (critical 0, warning 1); the sort is stable
SortBySeverity(alerts) ==
  SelectSeq(alerts, LAMBDA a : a.severity = "critical")
    \o SelectSeq(alerts, LAMBDA a : a.severity = "warning")

\* an alert; its title and message texts are left out. The id is the text
\* the template builds, kept as its parts: `missed_${medicine.id}` is
\* <<"missed", medicine.id>>
Alert(id, type, severity, medicineId) ==
  [id |-> id, type |-> type, severity |-> severity, medicineId |-> medicineId,
   createdAt |-> now]

\* severity of a low stock alert
StockSeverity(stock) ==
  IF stock <= CriticalStockThreshold THEN "critical" ELSE "warning"

\* mutant: the threshold compared strictly
LowStock_Strict(stock) == stock < LowStockThreshold

\* if (medicine.stock <= 5)
LowStock(stock) == stock <= LowStockThreshold

\* const lowAdherence = weeklyAdherence < 60
LowAdherence(weeklyAdherence) == weeklyAdherence < LowAdherenceThreshold

\* else if (weeklyAdherence < 80)
MediumAdherence(weeklyAdherence) == weeklyAdherence < MediumAdherenceThreshold

\* ---- getCaregiverAlerts
\* 1. one alert per medicine missed 3 times or more
CaregiverMissedAlerts(patientId) ==
  LET missed3Times == getMedicinesMissed3Times(patientId)
  IN  [i \in DOMAIN missed3Times |->
         Alert(<<"missed", missed3Times[i].medicine>>, "missed_3_times",
               "critical", missed3Times[i].medicine)]

\* mutant: the misses are added up instead of the medicines counted
RECURSIVE MissedCount_Sum(_)
MissedCount_Sum(missed3Times) ==
  IF missed3Times = <<>> THEN 0
  ELSE Head(missed3Times).missedCount + MissedCount_Sum(Tail(missed3Times))

\* missedCount++ for every medicine of missed3Times
MissedCount(missed3Times) == Len(missed3Times)

\* mutant: the stock alerts carry the ids of the missed alerts
CaregiverStockAlerts_MissedIds(patientId) ==
  LET low == SelectSeq(getMedicinesByPatient(patientId),
                       LAMBDA m : LowStock(Medicines[m].stock))
  IN  [i \in DOMAIN low |->
         Alert(<<"missed", low[i]>>, "low_stock",
               StockSeverity(Medicines[low[i]].stock), low[i])]

\* 2. one alert per medicine of low stock
CaregiverStockAlerts(patientId) ==
  LET low == SelectSeq(getMedicinesByPatient(patientId),
                       LAMBDA m : LowStock(Medicines[m].stock))
  IN  [i \in DOMAIN low |->
         Alert(<<"low_stock", low[i]>>, "low_stock",
               StockSeverity(Medicines[low[i]].stock), low[i])]

\* 3. the alert for a low weekly adherence
CaregiverAdherenceAlerts(weeklyAdherence) ==
  IF LowAdherence(weeklyAdherence)
  THEN <<Alert(<<"low_adherence">>, "low_adherence", "critical", NoId)>>
  ELSE <<>>

CaregiverAlerts(patientId) ==
  LET weeklyAdherence == WeeklyAdherence(patientId)
  IN  [alerts |-> SortBySeverity(CaregiverMissedAlerts(patientId)
                                 \o CaregiverStockAlerts(patientId)
                                 \o CaregiverAdherenceAlerts(weeklyAdherence)),
       missedCount |-> MissedCount(getMedicinesMissed3Times(patientId)),
       lowStockCount |-> Len(CaregiverStockAlerts(patientId)),
       lowAdherence |-> LowAdherence(weeklyAdherence)]

\* mutant: a notification goes out for each medicine of low stock
AlertWrites_Notify(id) ==
  /\ sent' = sent \cup {[medicineId |-> m, currentStock |-> Medicines[m].stock] :
                          m \in {x \in DOMAIN Medicines :
                                   /\ Medicines[x].patientId = id
                                   /\ LowStock(Medicines[x].stock)}}
  /\ UNCHANGED <<userVars, storeVars, sysVars>>

\* what alert derivation writes: nothing
AlertWrites(id) == UNCHANGED <<userVars, storeVars, sent, sysVars>>

getCaregiverAlerts(patientId) ==
  /\ AlertWrites(patientId)
  /\ UNCHANGED <<now, deleting, screenVars, hist>>
  /\ result' = [op |-> "getCaregiverAlerts", patientId |-> patientId,
                value |-> CaregiverAlerts(patientId)]

\* alerts.some(alert => alert.severity === 'critical')
HasCritical(alerts) == \E i \in DOMAIN alerts : alerts[i].severity = "critical"

hasCriticalAlerts(patientId) ==
  /\ AlertWrites(patientId)
  /\ UNCHANGED <<now, deleting, screenVars, hist>>
  /\ result' = [op |-> "hasCriticalAlerts", patientId |-> patientId,
                value |-> HasCritical(CaregiverAlerts(patientId).alerts)]

\* ---- getDoctorAlerts
\* the adherence alert of one patient of the panel
DoctorAdherenceAlerts(patientId, weeklyAdherence) ==
  IF LowAdherence(weeklyAdherence)
  THEN <<Alert(<<"low_adherence", patientId>>, "low_adherence", "critical", NoId)>>
  ELSE IF MediumAdherence(weeklyAdherence)
  THEN <<Alert(<<"medium_adherence", patientId>>, "low_adherence", "warning",
               NoId)>>
  ELSE <<>>

\* the alerts for the medicines one patient missed 3 times or more
DoctorMissedAlerts(patientId) ==
  LET missed3Times == getMedicinesMissed3Times(patientId)
  IN  [i \in DOMAIN missed3Times |->
         Alert(<<"missed", missed3Times[i].medicine, patientId>>,
               "missed_3_times", "critical", missed3Times[i].medicine)]

\* one pass of the loop over the patients
DoctorPatientAlerts(patientId, weeklyAdherence) ==
  DoctorAdherenceAlerts(patientId, weeklyAdherence) \o DoctorMissedAlerts(patientId)

DoctorAlerts(doctorId) ==
  LET patients == getPatientsByDoctor(doctorId)
      weekly == [i \in DOMAIN patients |-> WeeklyAdherence(patients[i])]
      pushed == Flatten([i \in DOMAIN patients |->
                           DoctorPatientAlerts(patients[i], weekly[i])],
                        Len(patients))
      alerts == SortBySeverity(pushed)
  IN  [alerts |-> alerts,
       patientsWithLowAdherence |->
         Cardinality({i \in DOMAIN patients : LowAdherence(weekly[i])}),
       patientsWithMissedMedicines |->
         Cardinality({i \in DOMAIN patients :
                        Len(getMedicinesMissed3Times(patients[i])) > 0}),
       totalAlerts |-> Len(alerts)]

getDoctorAlerts(doctorId) ==
  /\ AlertWrites(doctorId)
  /\ UNCHANGED <<now, deleting, screenVars, hist>>
  /\ result' = [op |-> "getDoctorAlerts", doctorId |-> doctorId,
                value |-> DoctorAlerts(doctorId)]

\* ------------------------------------- adaptiveTimeService: adherence trend
\* the rows of a set of AdherenceStats ids in ORDER BY date ASC, rows of one
\* date in the order of their ids
RECURSIVE OrderByDate(_)
OrderByDate(ids) ==
  IF ids = {} THEN <<>>
  ELSE LET first == CHOOSE x \in ids : \A y \in ids :
                      \/ AdherenceStats[x].date < AdherenceStats[y].date
                      \/ (AdherenceStats[x].date = AdherenceStats[y].date /\ x <= y)
       IN  <<[date |-> AdherenceStats[first].date,
              adherenceRate |-> AdherenceStats[first].adherenceRate]>>
             \o OrderByDate(ids \ {first})

\* SELECT date, adherenceRate FROM AdherenceStats WHERE patientId = ?
\* AND date >= date('now', '-${days} days') ORDER BY date ASC
TrendStats(patientId, days) ==
  OrderByDate({i \in DOMAIN AdherenceStats :
                 /\ AdherenceStats[i].patientId = patientId
                 /\ AdherenceStats[i].date >= Today - days})

\* stats.reduce((sum, s) => sum + s.adherenceRate, 0)
RECURSIVE SumRates(_)
SumRates(stats) ==
  IF stats = <<>> THEN FromInt(0)
  ELSE FAdd(SumRates(SubSeq(stats, 1, Len(stats) - 1)),
            stats[Len(stats)].adherenceRate)

\* stats.slice(-3) and stats.slice(0, 3) of at least 3 rows
TrendSample == 3
Recent(stats) == SubSeq(stats, Len(stats) - TrendSample + 1, Len(stats))
Older(stats) == SubSeq(stats, 1, TrendSample)

TrendThreshold == 10

\* the class of the rows read: difference = recentRate - olderRate in double
\* arithmetic, compared with 10 and -10
Trend(stats) ==
  IF Len(stats) < TrendSample THEN "stable"
  ELSE LET recentRate == FDivInt(SumRates(Recent(stats)), TrendSample)
           olderRate == FDivInt(SumRates(Older(stats)), TrendSample)
       IN  IF /\ FLess(olderRate, recentRate)
              /\ FLess(FromInt(TrendThreshold), FSub(recentRate, olderRate))
           THEN "improving"
           ELSE IF /\ FLess(recentRate, olderRate)
                   /\ FLess(FromInt(TrendThreshold), FSub(olderRate, recentRate))
           THEN "declining"
           ELSE "stable"

\* the result carries the rows read next to the class returned
predictAdherenceTrend(patientId, days) ==
  /\ LET stats == TrendStats(patientId, days)
     IN  result' = [op |-> "predictAdherenceTrend", patientId |-> patientId,
                    days |-> days, stats |-> stats, value |-> Trend(stats)]
  /\ UNCHANGED <<now, userVars, storeVars, sent, sysVars, deleting, screenVars, hist>>

\* ----------------------------------------------------- notificationService
\* identifiers the platform scheduler hands out in a run of the model
MaxScheduled == 4

\* today.setHours(hours, minutes, 0, 0); today.toISOString(): the clock time
\* HH:MM, modelled as [hours, minutes], on today's date
ScheduledISO(time) ==
  Today * SecondsPerDay + time.hours * 3600 + time.minutes * SecondsPerMinute

\* what scheduleAdaptiveReminder returns: the catch block's value when the
\* store or the platform scheduler throws, the adaptive reminder otherwise
AdaptiveReminder(medicineId, patientId, time, storeFails, osFails) ==
  IF storeFails \/ osFails
  THEN [identifier |-> NULL, isAdaptive |-> FALSE, scheduledTime |-> time,
        adaptiveTime |-> time, meanDelay |-> 0]
  ELSE LET adaptiveInfo == AdaptiveReminderTime(patientId, medicineId,
                                                ScheduledISO(time))
       IN  [identifier |-> seqScheduled + 1,
            isAdaptive |-> adaptiveInfo.isAdaptive,
            scheduledTime |-> time,
            adaptiveTime |-> adaptiveInfo.adaptiveTime,
            meanDelay |-> adaptiveInfo.meanDelay]

\* Notifications.scheduleNotificationAsync({content, trigger: DAILY at hour,
\* minute}): the notification the scheduler holds for a reminder r
Notification(medicineId, index, r) ==
  [identifier |-> r.identifier, medicineId |-> medicineId, timeIndex |-> index,
   isAdaptive |-> r.isAdaptive, meanDelay |-> r.meanDelay,
   hour |-> r.adaptiveTime.hours, minute |-> r.adaptiveTime.minutes]

\* the scheduler after the attempt that returned r
AfterReminder(medicineId, index, r) ==
  IF r.identifier = NULL THEN scheduled
  ELSE scheduled \cup {Notification(medicineId, index, r)}

\* a reminder scheduled by other code while rescheduleAllAdaptiveReminders
\* is in flight: the run is not alone
Disturbed ==
  IF rescheduling = Idle THEN rescheduling
  ELSE [rescheduling EXCEPT !.alone = FALSE]

scheduleAdaptiveReminder(medicineId, patientId, time, index, storeFails, osFails) ==
  /\ seqScheduled < MaxScheduled
  /\ LET r == AdaptiveReminder(medicineId, patientId, time, storeFails, osFails)
     IN  /\ scheduled' = AfterReminder(medicineId, index, r)
         /\ seqScheduled' = IF r.identifier = NULL THEN seqScheduled
                            ELSE seqScheduled + 1
         /\ result' = [op |-> "scheduleAdaptiveReminder", patientId |-> patientId,
                       medicineId |-> medicineId, storeFailed |-> storeFails,
                       rejected |-> FALSE, value |-> r]
  /\ rescheduling' = Disturbed
  /\ UNCHANGED <<now, dbVars, userVars, storeVars, sent, deleting, screenVars, hist>>

\* the reminders rescheduleAllAdaptiveReminders attempts, in the order of its
\* two loops: for each medicine, for each index i of its times
RECURSIVE Attempts(_)
Attempts(medicines) ==
  IF medicines = <<>> THEN <<>>
  ELSE LET rest == SubSeq(medicines, 1, Len(medicines) - 1)
           last == medicines[Len(medicines)]
       IN  Attempts(rest)
             \o [i \in DOMAIN last.times |->
                   [medicineId |-> last.id, time |-> last.times[i], index |-> i - 1]]

\* mutant: the notifications scheduled before stay
AfterCancelAll_Keep == scheduled

\* await cancelAllNotifications(): the scheduler holds nothing
AfterCancelAll == {}

\* rescheduleAllAdaptiveReminders up to its loops: the counters at 0 and the
\* existing notifications cancelled
rescheduleStart(patientId, medicines) ==
  /\ rescheduling = Idle
  /\ scheduled' = AfterCancelAll
  /\ rescheduling' = [pc |-> "loop", patientId |-> patientId, given |-> medicines,
                      todo |-> Attempts(medicines), total |-> Len(Attempts(medicines)),
                      scheduled |-> 0, failed |-> 0, adaptiveCount |-> 0,
                      alone |-> TRUE, first |-> seqScheduled + 1]
  /\ UNCHANGED <<now, dbVars, userVars, storeVars, sent, deleting, screenVars,
                 hist, result, seqScheduled>>

\* mutant: a failed attempt is not counted
Counted_FailuresDropped(job, r) ==
  [job EXCEPT !.scheduled = IF r.identifier # NULL THEN @ + 1 ELSE @,
              !.adaptiveCount = IF r.identifier # NULL /\ r.isAdaptive
                                THEN @ + 1 ELSE @]

\* if (result.identifier) { scheduled++; if (result.isAdaptive)
\* adaptiveCount++ } else { failed++ }
Counted(job, r) ==
  [job EXCEPT !.scheduled = IF r.identifier # NULL THEN @ + 1 ELSE @,
              !.adaptiveCount = IF r.identifier # NULL /\ r.isAdaptive
                                THEN @ + 1 ELSE @,
              !.failed = IF r.identifier # NULL THEN @ ELSE @ + 1]

\* one pass of the inner loop: the next reminder is attempted and counted
rescheduleStep(storeFails, osFails) ==
  /\ rescheduling # Idle
  /\ rescheduling.todo # <<>>
  /\ seqScheduled < MaxScheduled
  /\ LET a == Head(rescheduling.todo)
         r == AdaptiveReminder(a.medicineId, rescheduling.patientId, a.time,
                               storeFails, osFails)
     IN  /\ scheduled' = AfterReminder(a.medicineId, a.index, r)
         /\ seqScheduled' = IF r.identifier = NULL THEN seqScheduled
                            ELSE seqScheduled + 1
         /\ rescheduling' = [Counted(rescheduling, r) EXCEPT !.todo = Tail(@)]
  /\ UNCHANGED <<now, dbVars, userVars, storeVars, sent, deleting, screenVars,
                 hist, result>>

\* return { scheduled, failed, adaptiveCount }; the result carries, as
\* history, the medicines given, their number of clock-times, whether the run was alone and
\* the identifiers handed out during it
rescheduleReturn ==
  /\ rescheduling # Idle
  /\ rescheduling.todo = <<>>
  /\ result' = [op |-> "rescheduleAllAdaptiveReminders",
                patientId |-> rescheduling.patientId,
                value |-> [scheduled |-> rescheduling.scheduled,
                           failed |-> rescheduling.failed,
                           adaptiveCount |-> rescheduling.adaptiveCount],
                given |-> rescheduling.given,
                total |-> rescheduling.total, alone |-> rescheduling.alone,
                first |-> rescheduling.first, last |-> seqScheduled]
  /\ rescheduling' = Idle
  /\ UNCHANGED <<now, dbVars, userVars, storeVars, sent, deleting, screenVars,
                 hist, scheduled, seqScheduled>>

\* a store operation of getCaregiverAlerts rejects: the function has no
\* catch, the rejection reaches the caller and no list is returned
getCaregiverAlertsRejected(patientId) ==
  /\ result' = [op |-> "getCaregiverAlerts", patientId |-> patientId,
                storeFailed |-> TRUE, rejected |-> TRUE]
  /\ UNCHANGED <<now, sysVars, userVars, storeVars, sent, deleting, screenVars, hist>>

\* -------------------------------------------------------------- database.ts
\* handles openDatabaseAsync creates in a run of the model
MaxOpens == 3

\* getDatabase up to its await: if (db) return db; otherwise
\* SQLite.openDatabaseAsync is invoked and the caller waits for the handle
getDatabaseCall(c) ==
  /\ callers[c].pc \in {"idle", "done"}
  /\ IF db # NULL
     THEN /\ callers' = [callers EXCEPT ![c] = [pc |-> "done", handle |-> db]]
          /\ UNCHANGED <<seqHandles, opens>>
     ELSE /\ seqHandles < MaxOpens
          /\ seqHandles' = seqHandles + 1
          /\ opens' = opens + 1
          /\ callers' = [callers EXCEPT
                           ![c] = [pc |-> "opening", handle |-> seqHandles + 1]]
  /\ UNCHANGED <<now, db, osVars, userVars, storeVars, sent, deleting, screenVars,
                 hist, result>>

\* db = await SQLite.openDatabaseAsync(...); return db
getDatabaseOpened(c) ==
  /\ callers[c].pc = "opening"
  /\ db' = callers[c].handle
  /\ callers' = [callers EXCEPT ![c].pc = "done"]
  /\ UNCHANGED <<now, seqHandles, opens, osVars, userVars, storeVars, sent,
                 deleting, screenVars, hist, result>>

\* closeDatabase up to its await: if (db) { await db.closeAsync()
closeDatabaseCall(c) ==
  /\ callers[c].pc \in {"idle", "done"}
  /\ db # NULL
  /\ callers' = [callers EXCEPT ![c] = [pc |-> "closing", handle |-> db]]
  /\ UNCHANGED <<now, db, seqHandles, opens, osVars, userVars, storeVars, sent,
                 deleting, screenVars, hist, result>>

\* db = null; the calls answered before are calls before this close
closeDatabaseClosed(c) ==
  /\ callers[c].pc = "closing"
  /\ db' = NULL
  /\ opens' = 0
  /\ callers' = [x \in Callers |->
                   IF x = c \/ callers[x].pc = "done"
                   THEN [pc |-> "idle", handle |-> NULL] ELSE callers[x]]
  /\ UNCHANGED <<now, seqHandles, osVars, userVars, storeVars, sent, deleting,
                 screenVars, hist, result>>

\* --------------------------------------------------------------- the clock
\* a day passes
AdvanceDay ==
  /\ Today < StartDay + MaxDays
  /\ now' = now + SecondsPerDay
  /\ hist' = [hist EXCEPT !.fresh = {}]
  /\ UNCHANGED <<userVars, storeVars, sent, sysVars, deleting, screenVars, result>>

\* ----------------------------------------------------- MedicineDetailScreen
\* route.params.medicineId
ScreenMedicineId == 1
MaxHandlers == 2

\* SELECT * FROM MedicineLogs WHERE medicineId = ? ORDER BY scheduledTime DESC
\* (rows of equal scheduledTime in id order), as the [id, status] the screen uses
RECURSIVE Ordered(_)
Ordered(ids) ==
  IF ids = {} THEN <<>>
  ELSE LET first == CHOOSE l \in ids : \A k \in ids :
                      \/ MedicineLogs[l].scheduledTime > MedicineLogs[k].scheduledTime
                      \/ (MedicineLogs[l].scheduledTime = MedicineLogs[k].scheduledTime
                          /\ l <= k)
       IN  <<[id |-> first, status |-> MedicineLogs[first].status]>>
           \o Ordered(ids \ {first})

getLogsByMedicine(medicineId) ==
  Ordered({l \in LogIds : MedicineLogs[l].medicineId = medicineId})

\* the row as a one-element sequence, or <<>> for null
getMedicineById(medicineId) ==
  IF medicineId \in DOMAIN Medicines THEN <<Medicines[medicineId]>> ELSE <<>>

\* loadData: both reads, then setMedicine and setLogs
LoadData ==
  /\ medicine' = getMedicineById(ScreenMedicineId)
  /\ logs' = getLogsByMedicine(ScreenMedicineId)

\* useFocusEffect: the screen gains focus and loads
loadData ==
  /\ LoadData
  /\ UNCHANGED <<now, userVars, storeVars, sent, sysVars, deleting, handlers, hist, result>>

\* logs.find(l => l.status === 'pending') over the loaded logs
PendingLog ==
  LET hits == {i \in 1..Len(logs) : logs[i].status = "pending"}
  IN  IF hits = {} THEN NoId
      ELSE logs[CHOOSE i \in hits : \A j \in hits : i <= j].id

\* "Take Now" pressed: handleTakeMedicine(pendingLog.id) starts with the
\* medicine of the render it was created in
TakeNow ==
  /\ medicine # <<>>
  /\ PendingLog # NoId
  /\ Cardinality(handlers) < MaxHandlers
  /\ \E h \in 1..MaxHandlers :
       /\ \A x \in handlers : x.h # h
       /\ \A k \in 1..(h - 1) : \E x \in handlers : x.h = k
       /\ handlers' = handlers \cup {[h |-> h, logId |-> PendingLog,
                                      stock |-> medicine[1].stock, pc |-> "mark"]}
  /\ UNCHANGED <<now, userVars, storeVars, sent, sysVars, deleting, medicine, logs, hist, result>>

Moved(x, pc) == (handlers \ {x}) \cup {[x EXCEPT !.pc = pc]}

\* handleTakeMedicine: await markMedicineTaken(logId)
handleTakeMedicineMark(x) ==
  /\ x.pc = "mark"
  /\ MarkTaken(x.logId)
  /\ handlers' = Moved(x, "update")
  /\ hist' = [hist EXCEPT !.fresh = {}]
  /\ UNCHANGED <<now, sysVars, userVars, AdherenceStats, seqMedicines, seqMedicineLogs,
                 seqAdherenceStats, deleting, medicine, logs, result>>

\* handleTakeMedicine: if (medicine && medicine.stock > 0)
\*   await updateMedicineStock(medicineId, medicine.stock - 1)
handleTakeMedicineUpdate(x) ==
  /\ x.pc = "update"
  /\ Medicines' = IF x.stock > 0 THEN SetStock(ScreenMedicineId, x.stock - 1)
                  ELSE Medicines
  /\ handlers' = Moved(x, "load")
  /\ UNCHANGED <<now, userVars, MedicineLogs, AdherenceStats, seqMedicines,
                 seqMedicineLogs, seqAdherenceStats, sent, sysVars, deleting, medicine,
                 logs, hist, result>>

\* handleTakeMedicine: loadData()
handleTakeMedicineLoad(x) ==
  /\ x.pc = "load"
  /\ LoadData
  /\ handlers' = handlers \ {x}
  /\ UNCHANGED <<now, userVars, storeVars, sent, sysVars, deleting, hist, result>>

\* ------------------------------------------------------------ specification
\* the scheduled times a schedule generates: 08:00 today or tomorrow
DoseHour == 8
ScheduleTimes == {d * SecondsPerDay + DoseHour * 3600 : d \in {Today, Today + 1}}

Init ==
  /\ now = StartDay * SecondsPerDay + DoseHour * 3600 + 5 * SecondsPerMinute
  /\ Users = [p \in Patients |-> [role |-> "patient"]]
  /\ Relationships = <<>>
  /\ Medicines = <<>>
  /\ MedicineLogs = <<>>
  /\ AdherenceStats = <<>>
  /\ seqMedicines = 0
  /\ seqMedicineLogs = 0
  /\ seqAdherenceStats = 0
  /\ sent = {}
  /\ db = NULL
  /\ seqHandles = 0
  /\ opens = 0
  /\ callers = [c \in Callers |-> [pc |-> "idle", handle |-> NULL]]
  /\ scheduled = {}
  /\ seqScheduled = 0
  /\ rescheduling = Idle
  /\ deleting = NoId
  /\ medicine = <<>>
  /\ logs = <<>>
  /\ handlers = {}
  /\ hist = [fresh |-> {}, deleted |-> {}, stock0 |-> NULL]
  /\ result = [op |-> "none"]

Next ==
  \/ \E p \in Patients, s \in StockInputs : addMedicine(p, s)
  \/ \E m \in DOMAIN Medicines, s \in StockInputs : updateStock(m, s)
  \/ \E m \in DOMAIN Medicines, s \in StockInputs : updateMedicineStock(m, s)
  \/ \E m \in DOMAIN Medicines : decrementStock(m)
  \/ \E m \in DOMAIN Medicines : deleteMedicineLogs(m)
  \/ deleteMedicineRow
  \/ \E m \in DOMAIN Medicines, t \in ScheduleTimes :
       createMedicineLog(m, Medicines[m].patientId, t)
  \/ \E l \in LogIds : markMedicineTaken(l)
  \/ \E l \in LogIds : markMedicineMissed(l)
  \/ \E l \in LogIds : markMedicineSkipped(l)

\* the medicine and stock services over an initially empty store
Spec == Init /\ [][Next]_vars

\* a store holding one medicine per patient, as addMedicine leaves it
InitStats ==
  /\ now = StartDay * SecondsPerDay + DoseHour * 3600 + 5 * SecondsPerMinute
  /\ Users = [p \in Patients |-> [role |-> "patient"]]
  /\ Relationships = <<>>
  /\ Medicines = [m \in Patients |-> [patientId |-> m, stock |-> MaxStock]]
  /\ MedicineLogs = <<>>
  /\ AdherenceStats = <<>>
  /\ seqMedicines = MaxPatients
  /\ seqMedicineLogs = 0
  /\ seqAdherenceStats = 0
  /\ sent = {}
  /\ db = NULL
  /\ seqHandles = 0
  /\ opens = 0
  /\ callers = [c \in Callers |-> [pc |-> "idle", handle |-> NULL]]
  /\ scheduled = {}
  /\ seqScheduled = 0
  /\ rescheduling = Idle
  /\ deleting = NoId
  /\ medicine = <<>>
  /\ logs = <<>>
  /\ handlers = {}
  /\ hist = [fresh |-> {}, deleted |-> {}, stock0 |-> NULL]
  /\ result = [op |-> "none"]

NextStats ==
  \/ \E m \in DOMAIN Medicines, t \in ScheduleTimes :
       createMedicineLog(m, Medicines[m].patientId, t)
  \/ \E l \in LogIds : markMedicineTaken(l)
  \/ \E l \in LogIds : markMedicineMissed(l)
  \/ \E l \in LogIds : markMedicineSkipped(l)
  \/ \E p \in Patients : updateAdherenceStats(p)
  \/ AdvanceDay

\* dose logging and the daily statistics over the days
SpecStats == InitStats /\ [][NextStats]_vars

\* a store holding the screen's medicine with any stock
InitScreen ==
  /\ now = StartDay * SecondsPerDay + DoseHour * 3600 + 5 * SecondsPerMinute
  /\ Users = [p \in Patients |-> [role |-> "patient"]]
  /\ Relationships = <<>>
  /\ \E s \in 0..MaxStock :
       /\ Medicines = [m \in {ScreenMedicineId} |-> [patientId |-> 1, stock |-> s]]
       /\ hist = [fresh |-> {}, deleted |-> {}, stock0 |-> s]
  /\ MedicineLogs = <<>>
  /\ AdherenceStats = <<>>
  /\ seqMedicines = 1
  /\ seqMedicineLogs = 0
  /\ seqAdherenceStats = 0
  /\ sent = {}
  /\ db = NULL
  /\ seqHandles = 0
  /\ opens = 0
  /\ callers = [c \in Callers |-> [pc |-> "idle", handle |-> NULL]]
  /\ scheduled = {}
  /\ seqScheduled = 0
  /\ rescheduling = Idle
  /\ deleting = NoId
  /\ medicine = <<>>
  /\ logs = <<>>
  /\ handlers = {}
  /\ result = [op |-> "none"]

NextScreen ==
  \/ \E t \in ScheduleTimes : createMedicineLog(ScreenMedicineId, 1, t)
  \/ loadData
  \/ TakeNow
  \/ \E x \in handlers : handleTakeMedicineMark(x)
  \/ \E x \in handlers : handleTakeMedicineUpdate(x)
  \/ \E x \in handlers : handleTakeMedicineLoad(x)
  \/ \E l \in LogIds : markMedicineTaken(l)

\* doses taken from the medicine detail screen and through the service
SpecScreen == InitScreen /\ [][NextScreen]_vars

\* ---- stores for the read-only computations
MaxDoses == 40
MaxFewDoses == 2

\* dose n of a day's doses for a medicine of patientId, scheduled at 08:00 of
\* date and, when taken, taken five minutes late
DoseRow(patientId, date, status) ==
  LET at == date * SecondsPerDay + DoseHour * 3600
  IN  [medicineId |-> patientId, patientId |-> patientId, scheduledTime |-> at,
       takenAt |-> IF status = "taken" THEN at + 5 * SecondsPerMinute ELSE NULL,
       status |-> status]

\* the dates at the edges of the windows
EdgeDates == {StartDay - MonthlyWindowDays - 1, StartDay - MonthlyWindowDays,
              StartDay - WeeklyWindowDays - 1, StartDay - WeeklyWindowDays,
              StartDay, StartDay + 1}

\* n doses of patient 1 on one date, the first k taken and the others of
\* status rest, followed by the rows of extra
DoseStore(date, n, k, rest, extra) ==
  [i \in 1..(n + Len(extra)) |->
     IF i <= k THEN DoseRow(1, date, "taken")
     ELSE IF i <= n THEN DoseRow(1, date, rest)
     ELSE extra[i - n]]

\* nothing more, or one more dose of either patient on a window edge
ExtraDoses ==
  {<<>>} \cup {<<DoseRow(p, d, st)>> : p \in Patients, d \in EdgeDates,
                                       st \in {"taken", "missed"}}

InitRate ==
  /\ now = StartDay * SecondsPerDay + DoseHour * 3600 + 5 * SecondsPerMinute
  /\ Users = [p \in Patients |-> [role |-> "patient"]]
  /\ Relationships = <<>>
  /\ Medicines = [m \in Patients |-> [patientId |-> m, stock |-> MaxStock]]
  /\ \/ \E n \in 0..MaxDoses, k \in 0..MaxDoses :
          /\ k <= n
          /\ MedicineLogs = DoseStore(StartDay, n, k, "missed", <<>>)
     \/ \E d \in EdgeDates, n \in 0..MaxFewDoses, k \in 0..MaxFewDoses,
           rest \in Statuses \ {"taken"}, extra \in ExtraDoses :
          /\ k <= n
          /\ MedicineLogs = DoseStore(d, n, k, rest, extra)
  /\ AdherenceStats = <<>>
  /\ seqMedicines = MaxPatients
  /\ seqMedicineLogs = Len(MedicineLogs)
  /\ seqAdherenceStats = 0
  /\ sent = {}
  /\ db = NULL
  /\ seqHandles = 0
  /\ opens = 0
  /\ callers = [c \in Callers |-> [pc |-> "idle", handle |-> NULL]]
  /\ scheduled = {}
  /\ seqScheduled = 0
  /\ rescheduling = Idle
  /\ deleting = NoId
  /\ medicine = <<>>
  /\ logs = <<>>
  /\ handlers = {}
  /\ hist = [fresh |-> {}, deleted |-> {}, stock0 |-> NULL]
  /\ result = [op |-> "none"]

NextRate ==
  \/ \E p \in Patients : calculateAdherenceRate(p)
  \/ \E p \in Patients : calculateWeeklyAdherence(p)
  \/ \E p \in Patients : calculateAdherenceDetails(p)

\* the adherence rates read from a store the services have filled
SpecRate == InitRate /\ [][NextRate]_vars

\* ---- stores for the adaptive reminder computation
MaxHistory == 3
AdaptiveIds == {1, 2}

\* a dose of medicineId, scheduled at 08:00 of date and taken delay seconds later
TakenRow(medicineId, date, delay) ==
  LET at == date * SecondsPerDay + DoseHour * 3600
  IN  [medicineId |-> medicineId, patientId |-> 1, scheduledTime |-> at,
       takenAt |-> at + delay, status |-> "taken"]

\* the doses a history is made of: taken late before, at the edge of and
\* inside the analysis window, taken a day late, taken early, taken after
\* today's date, missed, and taken of another medicine
HistoryRows ==
  {TakenRow(1, StartDay - MAX_DAYS_TO_ANALYZE - 1, 90),
   TakenRow(1, StartDay - MAX_DAYS_TO_ANALYZE, 90),
   TakenRow(1, StartDay, 240),
   TakenRow(1, StartDay - 1, SecondsPerDay),
   TakenRow(1, StartDay, 0 - 30),
   TakenRow(1, StartDay + 1, 90),
   TakenRow(2, StartDay, 90),
   DoseRow(1, StartDay, "missed")}

\* the reminder times asked for: 08:00 and 23:59 today
ReminderTimes == {StartDay * SecondsPerDay + DoseHour * 3600,
                  StartDay * SecondsPerDay + 23 * 3600 + 59 * SecondsPerMinute}

InitAdaptive ==
  /\ now = StartDay * SecondsPerDay + DoseHour * 3600 + 5 * SecondsPerMinute
  /\ Users = [p \in Patients |-> [role |-> "patient"]]
  /\ Relationships = <<>>
  /\ Medicines = [m \in AdaptiveIds |-> [patientId |-> 1, stock |-> MaxStock]]
  /\ \E n \in 0..MaxHistory : MedicineLogs \in [1..n -> HistoryRows]
  /\ AdherenceStats = <<>>
  /\ seqMedicines = Cardinality(AdaptiveIds)
  /\ seqMedicineLogs = Len(MedicineLogs)
  /\ seqAdherenceStats = 0
  /\ sent = {}
  /\ db = NULL
  /\ seqHandles = 0
  /\ opens = 0
  /\ callers = [c \in Callers |-> [pc |-> "idle", handle |-> NULL]]
  /\ scheduled = {}
  /\ seqScheduled = 0
  /\ rescheduling = Idle
  /\ deleting = NoId
  /\ medicine = <<>>
  /\ logs = <<>>
  /\ handlers = {}
  /\ hist = [fresh |-> {}, deleted |-> {}, stock0 |-> NULL]
  /\ result = [op |-> "none"]

NextAdaptive ==
  \/ \E p \in AdaptiveIds, m \in AdaptiveIds : calculateMeanDelay(p, m)
  \/ \E p \in AdaptiveIds, m \in AdaptiveIds, t \in ReminderTimes :
       getAdaptiveReminderTime(p, m, t)

\* the adaptive reminder time read from a store the services have filled
SpecAdaptive == InitAdaptive /\ [][NextAdaptive]_vars

\* ---- stores for the alert derivation
MaxMissed == 3
MaxTaken == 12
MaxTicks == 1

\* a minute passes on the clock, the date staying the same
Tick ==
  /\ now < StartDay * SecondsPerDay + DoseHour * 3600
            + (5 + MaxTicks) * SecondsPerMinute
  /\ now' = now + SecondsPerMinute
  /\ UNCHANGED <<userVars, storeVars, sent, sysVars, deleting, screenVars, hist, result>>

\* a dose of patient 1's medicine medicineId, scheduled at 08:00 of date
AlertRow(medicineId, date, status) ==
  [DoseRow(1, date, status) EXCEPT !.medicineId = medicineId]

\* n copies of row
Copies(n, row) == [i \in 1..n |-> row]

\* doses of medicine 1 outside the 30 days up to today: none, one missed the
\* day before the window's first date, or some marked missed for tomorrow
AlertEdges ==
  {<<>>,
   Copies(1, AlertRow(1, StartDay - MonthlyWindowDays - 1, "missed")),
   Copies(MissedThreshold, AlertRow(1, StartDay + 1, "missed"))}

\* the doses of patient 1: missed1 and missed2 doses of medicines 1 and 2
\* missed today, taken doses of medicine 1 taken today, and the rows of edge
AlertStore(missed1, missed2, taken, edge) ==
  Copies(missed1, AlertRow(1, StartDay, "missed"))
    \o Copies(missed2, AlertRow(2, StartDay, "missed"))
    \o Copies(taken, AlertRow(1, StartDay, "taken"))
    \o edge

\* the stocks of patient 1's two medicines
AlertStocks ==
  {<<CriticalStockThreshold, LowStockThreshold + 1>>,
   <<CriticalStockThreshold + 1, CriticalStockThreshold>>,
   <<LowStockThreshold, LowStockThreshold>>,
   <<LowStockThreshold + 1, CriticalStockThreshold + 1>>}

InitAlerts ==
  /\ now = StartDay * SecondsPerDay + DoseHour * 3600 + 5 * SecondsPerMinute
  \* the users are the two patients the medicines belong to
  /\ Users = [p \in 1..2 |-> [role |-> "patient"]]
  /\ Relationships = <<>>
  /\ \E st \in AlertStocks, missed1 \in 0..MaxMissed,
        missed2 \in {0, MissedThreshold},
        taken \in {0, MissedThreshold, MaxTaken}, edge \in AlertEdges :
       \* every store of doses with one pair of stocks, and every pair of
       \* stocks with the stores of 3 missed and 3 taken doses of medicine 1
       /\ \/ st = <<CriticalStockThreshold, LowStockThreshold + 1>>
          \/ (missed1 = MissedThreshold /\ taken = MissedThreshold /\ edge = <<>>)
       /\ Medicines = <<[patientId |-> 1, stock |-> st[1]],
                        [patientId |-> 1, stock |-> st[2]],
                        [patientId |-> 2, stock |-> LowStockThreshold + 1]>>
       /\ MedicineLogs = AlertStore(missed1, missed2, taken, edge)
  /\ AdherenceStats = <<>>
  /\ seqMedicines = Len(Medicines)
  /\ seqMedicineLogs = Len(MedicineLogs)
  /\ seqAdherenceStats = 0
  /\ sent = {}
  /\ db = NULL
  /\ seqHandles = 0
  /\ opens = 0
  /\ callers = [c \in Callers |-> [pc |-> "idle", handle |-> NULL]]
  /\ scheduled = {}
  /\ seqScheduled = 0
  /\ rescheduling = Idle
  /\ deleting = NoId
  /\ medicine = <<>>
  /\ logs = <<>>
  /\ handlers = {}
  /\ hist = [fresh |-> {}, deleted |-> {}, stock0 |-> NULL]
  /\ result = [op |-> "none"]

NextAlerts ==
  \/ \E p \in DOMAIN Users : createDoctor(p)
  \/ \E p \in DOMAIN Users \ Doctors : getCaregiverAlerts(p)
  \/ \E p \in DOMAIN Users \ Doctors : hasCriticalAlerts(p)
  \/ \E d \in DOMAIN Users : getDoctorAlerts(d)
  \/ Tick

\* the alerts derived from a store the services have filled
SpecAlerts == InitAlerts /\ [][NextAlerts]_vars

\* ---- stores for the adherence trend
\* the doses (taken, total) of three days
TrendBlock(a, b, c) ==
  <<[taken |-> a[1], total |-> a[2]], [taken |-> b[1], total |-> b[2]],
    [taken |-> c[1], total |-> c[2]]>>

\* the doses of the three oldest days of a history
OlderBlocks ==
  {TrendBlock(<<1, 2>>, <<1, 2>>, <<1, 2>>),
   TrendBlock(<<9, 10>>, <<9, 10>>, <<9, 10>>),
   TrendBlock(<<1, 2>>, <<1, 5>>, <<0, 1>>),
   TrendBlock(<<0, 1>>, <<0, 1>>, <<0, 1>>)}

\* the doses of the three days after them
RecentBlocks ==
  {TrendBlock(<<9, 10>>, <<9, 10>>, <<9, 10>>),
   TrendBlock(<<1, 2>>, <<1, 2>>, <<1, 2>>),
   TrendBlock(<<1, 1>>, <<0, 1>>, <<0, 1>>),
   TrendBlock(<<1, 5>>, <<1, 10>>, <<0, 1>>)}

\* the doses of the two days after those
TrendTail == <<[taken |-> 1, total |-> 1], [taken |-> 1, total |-> 2]>>

\* the rows updateAdherenceStats leaves for patient 1 when it runs once a day
\* on the n days up to today, days[i] being the doses of the i-th day
DailyStats(days, n) ==
  [i \in 1..n |-> [patientId |-> 1, date |-> Today - n + i,
                   totalDoses |-> days[i].total, takenDoses |-> days[i].taken,
                   adherenceRate |-> StatRate(days[i])]]

\* the days the trend is asked for: the default and a short window
TrendDays == {2, WeeklyWindowDays}

InitTrend ==
  /\ now = StartDay * SecondsPerDay + DoseHour * 3600 + 5 * SecondsPerMinute
  /\ Users = [p \in Patients |-> [role |-> "patient"]]
  /\ Relationships = <<>>
  /\ Medicines = <<>>
  /\ MedicineLogs = <<>>
  /\ \E older \in OlderBlocks, recent \in RecentBlocks :
       \E n \in 0..(Len(older) + Len(recent) + Len(TrendTail)) :
         AdherenceStats = DailyStats(older \o recent \o TrendTail, n)
  /\ seqMedicines = 0
  /\ seqMedicineLogs = 0
  /\ seqAdherenceStats = Len(AdherenceStats)
  /\ sent = {}
  /\ db = NULL
  /\ seqHandles = 0
  /\ opens = 0
  /\ callers = [c \in Callers |-> [pc |-> "idle", handle |-> NULL]]
  /\ scheduled = {}
  /\ seqScheduled = 0
  /\ rescheduling = Idle
  /\ deleting = NoId
  /\ medicine = <<>>
  /\ logs = <<>>
  /\ handlers = {}
  /\ hist = [fresh |-> {}, deleted |-> {}, stock0 |-> NULL]
  /\ result = [op |-> "none"]

NextTrend ==
  \/ \E p \in Patients : updateAdherenceStats(p)
  \/ \E p \in Patients, days \in TrendDays : predictAdherenceTrend(p, days)

\* the trend read from the statistics of the days up to today
SpecTrend == InitTrend /\ [][NextTrend]_vars

\* ---- stores and inputs for the reminders
\* the clock times a medicine is configured with
ReminderClocks == {ClockOf(t) : t \in ReminderTimes}

\* a medicine as rescheduleAllAdaptiveReminders receives it: its id and
\* JSON.parse(medicine.times)
TimedMedicine(id, times) == [id |-> id, times |-> times]

\* the medicine lists given: none, one medicine with two times, two medicines
\* with one time each, a medicine without times before one with two
MedicineLists ==
  LET early == CHOOSE c \in ReminderClocks : \A d \in ReminderClocks : c.hours <= d.hours
      late == CHOOSE c \in ReminderClocks : \A d \in ReminderClocks : c.hours >= d.hours
  IN  {<<>>,
       <<TimedMedicine(1, <<early, late>>)>>,
       <<TimedMedicine(1, <<early>>), TimedMedicine(2, <<late>>)>>,
       <<TimedMedicine(2, <<>>), TimedMedicine(1, <<late, early>>)>>}

\* the dose logs: none, or medicine 1 taken 4 minutes late on each of the
\* MIN_DAYS_FOR_ADAPTIVE days up to today
LateStores ==
  {<<>>,
   [i \in 1..MIN_DAYS_FOR_ADAPTIVE |->
      TakenRow(1, StartDay - i + 1, 4 * SecondsPerMinute)]}

InitNotify ==
  /\ now = StartDay * SecondsPerDay + DoseHour * 3600 + 5 * SecondsPerMinute
  /\ Users = [p \in Patients |-> [role |-> "patient"]]
  /\ Relationships = <<>>
  /\ Medicines = [m \in AdaptiveIds |-> [patientId |-> 1, stock |-> MaxStock]]
  /\ MedicineLogs \in LateStores
  /\ AdherenceStats = <<>>
  /\ seqMedicines = Cardinality(AdaptiveIds)
  /\ seqMedicineLogs = Len(MedicineLogs)
  /\ seqAdherenceStats = 0
  /\ sent = {}
  /\ db = NULL
  /\ seqHandles = 0
  /\ opens = 0
  /\ callers = [c \in Callers |-> [pc |-> "idle", handle |-> NULL]]
  /\ scheduled = {}
  /\ seqScheduled = 0
  /\ rescheduling = Idle
  /\ deleting = NoId
  /\ medicine = <<>>
  /\ logs = <<>>
  /\ handlers = {}
  /\ hist = [fresh |-> {}, deleted |-> {}, stock0 |-> NULL]
  /\ result = [op |-> "none"]

NextNotify ==
  \/ \E ms \in MedicineLists : rescheduleStart(1, ms)
  \/ \E storeFails, osFails \in BOOLEAN : rescheduleStep(storeFails, osFails)
  \/ rescheduleReturn
  \/ \E t \in ReminderClocks, storeFails, osFails \in BOOLEAN :
       scheduleAdaptiveReminder(1, 1, t, 0, storeFails, osFails)
  \/ \E p \in Patients : getCaregiverAlertsRejected(p)

\* the reminders scheduled from a store the services have filled
SpecNotify == InitNotify /\ [][NextNotify]_vars

\* ---- the database handle
InitDatabase ==
  /\ now = StartDay * SecondsPerDay + DoseHour * 3600 + 5 * SecondsPerMinute
  /\ Users = [p \in Patients |-> [role |-> "patient"]]
  /\ Relationships = <<>>
  /\ Medicines = <<>>
  /\ MedicineLogs = <<>>
  /\ AdherenceStats = <<>>
  /\ seqMedicines = 0
  /\ seqMedicineLogs = 0
  /\ seqAdherenceStats = 0
  /\ sent = {}
  /\ db = NULL
  /\ seqHandles = 0
  /\ opens = 0
  /\ callers = [c \in Callers |-> [pc |-> "idle", handle |-> NULL]]
  /\ scheduled = {}
  /\ seqScheduled = 0
  /\ rescheduling = Idle
  /\ deleting = NoId
  /\ medicine = <<>>
  /\ logs = <<>>
  /\ handlers = {}
  /\ hist = [fresh |-> {}, deleted |-> {}, stock0 |-> NULL]
  /\ result = [op |-> "none"]

NextDatabase ==
  \/ \E c \in Callers : getDatabaseCall(c)
  \/ \E c \in Callers : getDatabaseOpened(c)
  \/ \E c \in Callers : closeDatabaseCall(c)
  \/ \E c \in Callers : closeDatabaseClosed(c)

\* concurrent callers of getDatabase and closeDatabase
SpecDatabase == InitDatabase /\ [][NextDatabase]_vars

\* ---- stores for the delays and the time of day of misses
MaxDelayLogs == 3

\* a dose of patient 1's medicine 1 scheduled at hour of date
HourRow(date, hour, takenAt, status) ==
  [medicineId |-> 1, patientId |-> 1,
   scheduledTime |-> date * SecondsPerDay + hour * 3600, takenAt |-> takenAt,
   status |-> status]

\* taken doses: 4 minutes late today, 90 seconds late on the window's first
\* date, late the day before it, half a minute early today, tomorrow's dose
\* taken now, and one whose takenAt text is malformed
TakenRows ==
  <<TakenRow(1, StartDay, 4 * SecondsPerMinute),
    TakenRow(1, StartDay - MonthlyWindowDays, 90),
    TakenRow(1, StartDay - MonthlyWindowDays - 1, 4 * SecondsPerMinute),
    TakenRow(1, StartDay, 0 - 30),
    HourRow(StartDay + 1, DoseHour,
            StartDay * SecondsPerDay + DoseHour * 3600 + 5 * SecondsPerMinute, "taken"),
    HourRow(StartDay, DoseHour, InvalidDate, "taken")>>

\* doses not taken: one per time of day, at the hours where the periods
\* meet, one tomorrow, one the day before the window and one whose
\* scheduledTime text is malformed
MissRows ==
  <<HourRow(StartDay, 6, NULL, "missed"),
    HourRow(StartDay, 12, NULL, "skipped"),
    HourRow(StartDay - 1, 18, NULL, "missed"),
    HourRow(StartDay, 5, NULL, "missed"),
    HourRow(StartDay + 1, 23, NULL, "missed"),
    HourRow(StartDay - MonthlyWindowDays - 1, 12, NULL, "missed"),
    [HourRow(StartDay, 0, NULL, "missed") EXCEPT !.scheduledTime = InvalidDate]>>

\* the stores of up to MaxDelayLogs rows of a list, rows in the list's order
StoresOf(rows) ==
  UNION {{[i \in 1..n |-> rows[f[i]]] :
            f \in {g \in [1..n -> DOMAIN rows] :
                     \A i \in 1..(n - 1) : g[i] <= g[i + 1]}} :
          n \in 0..MaxDelayLogs}

InitDelays ==
  /\ now = StartDay * SecondsPerDay + DoseHour * 3600 + 5 * SecondsPerMinute
  /\ Users = [p \in Patients |-> [role |-> "patient"]]
  /\ Relationships = <<>>
  /\ Medicines = [m \in AdaptiveIds |-> [patientId |-> 1, stock |-> MaxStock]]
  /\ MedicineLogs \in StoresOf(TakenRows) \cup StoresOf(MissRows)
  /\ AdherenceStats = <<>>
  /\ seqMedicines = Cardinality(AdaptiveIds)
  /\ seqMedicineLogs = Len(MedicineLogs)
  /\ seqAdherenceStats = 0
  /\ sent = {}
  /\ db = NULL
  /\ seqHandles = 0
  /\ opens = 0
  /\ callers = [c \in Callers |-> [pc |-> "idle", handle |-> NULL]]
  /\ scheduled = {}
  /\ seqScheduled = 0
  /\ rescheduling = Idle
  /\ deleting = NoId
  /\ medicine = <<>>
  /\ logs = <<>>
  /\ handlers = {}
  /\ hist = [fresh |-> {}, deleted |-> {}, stock0 |-> NULL]
  /\ result = [op |-> "none"]

NextDelays ==
  \/ \E p \in Patients : calculateAverageDelayTime(p)
  \/ \E p \in Patients : getMostMissedTimePeriod(p)
  \/ \E p \in Patients, m \in AdaptiveIds : calculateMeanDelay(p, m)

\* the delay and time-of-day reports read from a store the services have filled
SpecDelays == InitDelays /\ [][NextDelays]_vars

\* ---- stores for the daily statistics
MaxDailyDoses == 3

\* patient 1 with up to MaxDailyDoses doses today, some of them taken, and
\* patient 2 with none
InitDaily ==
  /\ now = StartDay * SecondsPerDay + DoseHour * 3600 + 5 * SecondsPerMinute
  /\ Users = [p \in Patients |-> [role |-> "patient"]]
  /\ Relationships = <<>>
  /\ Medicines = [m \in Patients |-> [patientId |-> m, stock |-> MaxStock]]
  /\ \E n \in 0..MaxDailyDoses, k \in 0..MaxDailyDoses,
        rest \in Statuses \ {"taken"} :
       /\ k <= n
       /\ MedicineLogs = DoseStore(StartDay, n, k, rest, <<>>)
  /\ AdherenceStats = <<>>
  /\ seqMedicines = MaxPatients
  /\ seqMedicineLogs = Len(MedicineLogs)
  /\ seqAdherenceStats = 0
  /\ sent = {}
  /\ db = NULL
  /\ seqHandles = 0
  /\ opens = 0
  /\ callers = [c \in Callers |-> [pc |-> "idle", handle |-> NULL]]
  /\ scheduled = {}
  /\ seqScheduled = 0
  /\ rescheduling = Idle
  /\ deleting = NoId
  /\ medicine = <<>>
  /\ logs = <<>>
  /\ handlers = {}
  /\ hist = [fresh |-> {}, deleted |-> {}, stock0 |-> NULL]
  /\ result = [op |-> "none"]

NextDaily ==
  \/ \E p \in Patients : updateAdherenceStats(p)
  \/ \E p \in Patients : calculateAdherenceRate(p)

\* today's statistics stored and today's rate read over the same dose logs
SpecDaily == InitDaily /\ [][NextDaily]_vars

\* ------------------------------------------------------------------ claims
\* the stored statistics as a bag: each stored row value with the number of
\* rows holding it
StoredStats ==
  LET rows == {AdherenceStats[i] : i \in DOMAIN AdherenceStats}
  IN  [r \in rows |-> Cardinality({i \in DOMAIN AdherenceStats : AdherenceStats[i] = r})]

\* C1: after any sequence of updateAdherenceStats calls the AdherenceStats
\* table holds at most one row per (patientId, date).
C1_OneRowPerPatientAndDate ==
  \A i, j \in DOMAIN AdherenceStats :
    (AdherenceStats[i].patientId = AdherenceStats[j].patientId
     /\ AdherenceStats[i].date = AdherenceStats[j].date) => i = j

\* C2: updateAdherenceStats called again for a patient whose statistics were
\* already recomputed, with the dose logs and the date unchanged since, leaves
\* the stored statistics as they were.
C2_UpdateStatsIdempotent ==
  [][\A p \in Patients :
       (p \in hist.fresh /\ updateAdherenceStats(p)) => StoredStats' = StoredStats]_vars

\* C3: in every reachable state a dose log has takenAt set if and only if its
\* status is 'taken'.
C3_TakenAtIffTaken ==
  \A l \in LogIds :
    (MedicineLogs[l].takenAt # NULL) <=> (MedicineLogs[l].status = "taken")

\* C4: a dose log starts 'pending' and changes status at most once: a log
\* whose status is no longer 'pending' keeps that status in every later step.
C4_StatusChangesOnce ==
  [][/\ \A l \in DOMAIN MedicineLogs' \ LogIds :
          MedicineLogs'[l].status = "pending"
     /\ \A l \in LogIds \cap DOMAIN MedicineLogs' :
          MedicineLogs[l].status # "pending"
            => MedicineLogs'[l].status = MedicineLogs[l].status]_vars

\* C5: no medicine ever has a negative stock.
C5_StockNeverNegative ==
  \A m \in DOMAIN Medicines : Medicines[m].stock >= 0

\* C6: once every take action has finished, the stock is the initial stock
\* less one for each dose log that became taken, floored at zero.
C6_StockCountsTakenDoses ==
  handlers = {} =>
    Medicines[ScreenMedicineId].stock
      = LET n == hist.stock0
                 - Cardinality({l \in LogIds : MedicineLogs[l].status = "taken"})
        IN  IF n > 0 THEN n ELSE 0

\* C7: dose logs disappear only in a step of deleteMedicine, and no dose log
\* references a medicine whose deleteMedicine has completed.
C7_LogsGoWithTheirMedicine ==
  /\ [](\A m \in hist.deleted :
          {l \in LogIds : MedicineLogs[l].medicineId = m} = {})
  /\ [][LogIds \subseteq DOMAIN MedicineLogs'
        \/ \E m \in DOMAIN Medicines : deleteMedicineLogs(m)]_vars

\* round(100 * taken / total) in exact arithmetic, halves upward
ExactPercent(taken, total) == (200 * taken + total) \div (2 * total)

\* the rate the specification gives a window of c.total logs, c.taken taken
C8_Expected(c) == IF c.total = 0 THEN 100 ELSE ExactPercent(c.taken, c.total)

\* C8: the rate of each window is 100 when the window holds no logs and
\* otherwise round(100 * taken / total), halves upward; it lies in 0..100.
C8_RateIsRoundedPercentage ==
  /\ result.op = "calculateAdherenceRate" =>
       /\ result.value = C8_Expected(CountOn(result.patientId, Today))
       /\ result.value \in 0..100
  /\ result.op = "calculateWeeklyAdherence" =>
       /\ result.value
            = C8_Expected(CountSince(result.patientId, Today - WeeklyWindowDays))
       /\ result.value \in 0..100
  /\ result.op = "calculateAdherenceDetails" =>
       /\ result.value.adherencePercentage
            = C8_Expected(CountSince(result.patientId, Today - MonthlyWindowDays))
       /\ result.value.adherencePercentage \in 0..100

\* the patient's logs scheduled on the dates from..to, counted
C9_Between(patientId, from, to) ==
  LET rows == {l \in LogIds :
                 /\ MedicineLogs[l].patientId = patientId
                 /\ DateOf(MedicineLogs[l].scheduledTime) >= from
                 /\ DateOf(MedicineLogs[l].scheduledTime) <= to}
  IN  [total |-> Cardinality(rows),
       taken |-> Cardinality({l \in rows : MedicineLogs[l].status = "taken"})]

\* C9: the 7-day and 30-day aggregations count exactly the patient's logs
\* scheduled from the window's start date to today inclusive.
C9_WindowsEndToday ==
  /\ result.op = "calculateWeeklyAdherence" =>
       result.value
         = RateOf(C9_Between(result.patientId, Today - WeeklyWindowDays, Today))
  /\ result.op = "calculateAdherenceDetails" =>
       LET c == C9_Between(result.patientId, Today - MonthlyWindowDays, Today)
       IN  /\ result.value.totalDoses = c.total
           /\ result.value.takenDoses = c.taken

\* the pair's taken logs, with a take time, scheduled in the last 5 days or later
C10_Qualifying(patientId, medicineId) ==
  {l \in LogIds :
     /\ MedicineLogs[l].patientId = patientId
     /\ MedicineLogs[l].medicineId = medicineId
     /\ MedicineLogs[l].status = "taken"
     /\ MedicineLogs[l].takenAt # NULL
     /\ DateOf(MedicineLogs[l].scheduledTime) >= Today - 5}

RECURSIVE C11_LateSeconds(_)
C11_LateSeconds(ids) ==
  IF ids = {} THEN 0
  ELSE LET l == CHOOSE x \in ids : TRUE
           late == MedicineLogs[l].takenAt > MedicineLogs[l].scheduledTime
       IN  (IF late THEN MedicineLogs[l].takenAt - MedicineLogs[l].scheduledTime
            ELSE 0) + C11_LateSeconds(ids \ {l})

C12_SameClockIffNoDelay ==
  result.op = "getAdaptiveReminderTime" =>
    LET v == result.value
    IN  (v.adaptiveTime = [hours |-> (v.scheduledTime % 86400) \div 3600,
                           minutes |-> (v.scheduledTime % 3600) \div 60])
          <=> (v.meanDelay = 0)

\* the doses of a medicine the patient missed in the 30 days up to today
C13_MissedInWindow(medicineId, patientId) ==
  Cardinality({l \in LogIds :
                 /\ MedicineLogs[l].medicineId = medicineId
                 /\ MedicineLogs[l].patientId = patientId
                 /\ MedicineLogs[l].status = "missed"
                 /\ DateOf(MedicineLogs[l].scheduledTime) >= Today - 30
                 /\ DateOf(MedicineLogs[l].scheduledTime) <= Today})

\* C13: getCaregiverAlerts holds exactly one critical 'missed_3_times' alert
\* for each medicine of the patient with at least 3 missed logs scheduled in
\* the trailing 30 days, and none for any other medicine.
C13_OneAlertPerMissedMedicine ==
  result.op = "getCaregiverAlerts" =>
    \A m \in DOMAIN Medicines :
      LET hits == {i \in DOMAIN result.value.alerts :
                     /\ result.value.alerts[i].type = "missed_3_times"
                     /\ result.value.alerts[i].medicineId = m}
      IN  /\ \A i \in hits : result.value.alerts[i].severity = "critical"
          /\ Cardinality(hits)
               = IF /\ Medicines[m].patientId = result.patientId
                    /\ C13_MissedInWindow(m, result.patientId) >= 3
                 THEN 1 ELSE 0

\* C14: getCaregiverAlerts holds one 'low_stock' alert for each medicine of
\* the patient with stock <= 5 and none for stock > 5; the alert is critical
\* when stock <= 2 and a warning when stock is 3, 4 or 5.
C14_LowStockAlerts ==
  result.op = "getCaregiverAlerts" =>
    \A m \in DOMAIN Medicines :
      LET hits == {i \in DOMAIN result.value.alerts :
                     /\ result.value.alerts[i].type = "low_stock"
                     /\ result.value.alerts[i].medicineId = m}
      IN  /\ Cardinality(hits)
               = IF /\ Medicines[m].patientId = result.patientId
                    /\ Medicines[m].stock <= 5
                 THEN 1 ELSE 0
          /\ \A i \in hits :
               result.value.alerts[i].severity
                 = IF Medicines[m].stock <= 2 THEN "critical" ELSE "warning"

\* C14 witness: a list with a critical and a warning stock alert
C14_Witness ==
  /\ result.op = "getCaregiverAlerts"
  /\ \E i, j \in DOMAIN result.value.alerts :
       /\ result.value.alerts[i].type = "low_stock"
       /\ result.value.alerts[i].severity = "critical"
       /\ result.value.alerts[j].type = "low_stock"
       /\ result.value.alerts[j].severity = "warning"

\* the trailing-7-day rate of a patient: the share of taken doses among
\* those scheduled from 7 days ago to today, in percent, halves upward
C15_Rate(patientId) == C8_Expected(C9_Between(patientId, Today - 7, Today))

\* the positions of the adherence alerts of a severity in a list
C15_Adherence(alerts, severity) ==
  {i \in DOMAIN alerts : /\ alerts[i].type = "low_adherence"
                         /\ alerts[i].severity = severity}

\* C15: the adherence alert follows the trailing-7-day rate: the caregiver
\* list holds a critical adherence alert iff the rate is below 60 and never
\* a warning one; the doctor list holds, per patient of the panel, a critical
\* alert iff the rate is below 60 and a warning iff it is in [60, 80).
C15_AdherenceAlertFollowsRate ==
  /\ result.op = "getCaregiverAlerts" =>
       /\ C15_Adherence(result.value.alerts, "critical") # {}
            <=> C15_Rate(result.patientId) < 60
       /\ C15_Adherence(result.value.alerts, "warning") = {}
  /\ result.op = "getDoctorAlerts" =>
       \A k \in DOMAIN getPatientsByDoctor(result.doctorId) :
         LET p == getPatientsByDoctor(result.doctorId)[k]
             of(severity) == {i \in C15_Adherence(result.value.alerts, severity) :
                                result.value.alerts[i].id[2] = p}
         IN  /\ of("critical") # {} <=> C15_Rate(p) < 60
             /\ of("warning") # {} <=> (C15_Rate(p) >= 60 /\ C15_Rate(p) < 80)

\* the place of an alert's type in the order of emission
C16_Rank(type) ==
  IF type = "missed_3_times" THEN 1 ELSE IF type = "low_stock" THEN 2 ELSE 3

\* C16: in the caregiver list every critical alert precedes every warning
\* alert, and alerts of equal severity stand in the order missed, stock,
\* adherence.
C16_CaregiverOrder ==
  result.op = "getCaregiverAlerts" =>
    \A i, j \in DOMAIN result.value.alerts :
      i < j =>
        LET a == result.value.alerts[i]
            b == result.value.alerts[j]
        IN  /\ ~(a.severity = "warning" /\ b.severity = "critical")
            /\ a.severity = b.severity => C16_Rank(a.type) <= C16_Rank(b.type)

\* C16 witness: a list with a missed alert in which the critical adherence
\* alert, pushed last, stands before a stock warning
C16_Witness ==
  /\ result.op = "getCaregiverAlerts"
  /\ \E i, j, k \in DOMAIN result.value.alerts :
       /\ result.value.alerts[i].type = "missed_3_times"
       /\ j < k
       /\ result.value.alerts[j].type = "low_adherence"
       /\ result.value.alerts[k].type = "low_stock"
       /\ result.value.alerts[k].severity = "warning"

\* C17: in the doctor list a patient's critical 'missed_3_times' alert
\* precedes that patient's critical 'low_adherence' alert.
C17_DoctorMissedBeforeAdherence ==
  result.op = "getDoctorAlerts" =>
    \A i, j \in DOMAIN result.value.alerts :
      LET a == result.value.alerts[i]
          b == result.value.alerts[j]
      IN  (/\ a.type = "missed_3_times"
           /\ b.type = "low_adherence"
           /\ b.severity = "critical"
           /\ a.id[3] = b.id[2]) => i < j

\* the ids of a list of alerts
C18_Ids(alerts) == {alerts[i].id : i \in DOMAIN alerts}

\* the alert lists: the operations that return one
C18_Lists == {"getCaregiverAlerts", "getDoctorAlerts"}

\* the caregiver's patient or the doctor a list was derived for
C18_Subject(r) == IF r.op = "getDoctorAlerts" THEN r.doctorId ELSE r.patientId

\* C18: no two alerts of a returned list share an id, and a list derived
\* again for the same subject from an unchanged store has the same ids.
C18_StableUniqueIds ==
  /\ [](result.op \in C18_Lists =>
          \A i, j \in DOMAIN result.value.alerts :
            result.value.alerts[i].id = result.value.alerts[j].id => i = j)
  /\ [][(/\ result.op \in C18_Lists
         /\ result'.op = result.op
         /\ C18_Subject(result') = C18_Subject(result)
         /\ UNCHANGED <<userVars, storeVars>>)
          => C18_Ids(result'.value.alerts) = C18_Ids(result.value.alerts)]_vars

\* C18 witness: a caregiver list derived a minute after the first derivation
\* could be made, holding a missed and a stock alert for the same medicine
C18_Witness ==
  /\ result.op = "getCaregiverAlerts"
  /\ \E i, j \in DOMAIN result.value.alerts :
       /\ result.value.alerts[i].type = "missed_3_times"
       /\ result.value.alerts[j].type = "low_stock"
       /\ result.value.alerts[i].medicineId = result.value.alerts[j].medicineId
       /\ result.value.alerts[i].createdAt
            > StartDay * SecondsPerDay + DoseHour * 3600 + 5 * SecondsPerMinute

\* the positions of the alerts of a type in a list
C19_OfType(alerts, type) == {i \in DOMAIN alerts : alerts[i].type = type}

\* C19: the counts agree with the list: the caregiver's missedCount and
\* lowStockCount are the numbers of missed and stock alerts and lowAdherence
\* tells whether an adherence alert is present; the doctor's counts are the
\* numbers of distinct patients with a critical adherence alert and with a
\* missed alert, and totalAlerts is the length of the list.
C19_CountsAgreeWithList ==
  /\ result.op = "getCaregiverAlerts" =>
       LET v == result.value
       IN  /\ v.missedCount = Cardinality(C19_OfType(v.alerts, "missed_3_times"))
           /\ v.lowStockCount = Cardinality(C19_OfType(v.alerts, "low_stock"))
           /\ v.lowAdherence <=> C19_OfType(v.alerts, "low_adherence") # {}
  /\ result.op = "getDoctorAlerts" =>
       LET v == result.value
       IN  /\ v.patientsWithLowAdherence
                = Cardinality({v.alerts[i].id[2] :
                                 i \in {k \in C19_OfType(v.alerts, "low_adherence") :
                                          v.alerts[k].severity = "critical"}})
           /\ v.patientsWithMissedMedicines
                = Cardinality({v.alerts[i].id[3] :
                                 i \in C19_OfType(v.alerts, "missed_3_times")})
           /\ v.totalAlerts = Len(v.alerts)

\* C19 witness: a caregiver list with alerts for two missed medicines, a
\* stock alert and the adherence alert
C19_Witness ==
  /\ result.op = "getCaregiverAlerts"
  /\ result.value.missedCount = 2
  /\ result.value.lowStockCount >= 1
  /\ result.value.lowAdherence

\* C20: deriving alerts leaves the users, relationships, medicines, dose
\* logs, daily statistics and the notifications sent as they were: a step
\* that changes one of them is no step of getCaregiverAlerts,
\* hasCriticalAlerts or getDoctorAlerts.
C20_AlertsWriteNothing ==
  [][\/ UNCHANGED <<Users, Relationships, Medicines, MedicineLogs,
                    AdherenceStats, sent>>
     \/ ~(\/ \E p \in Patients : getCaregiverAlerts(p) \/ hasCriticalAlerts(p)
          \/ \E d \in DOMAIN Users : getDoctorAlerts(d))]_vars

\* C20 witness: alerts derived for a doctor's patient with a medicine of low
\* stock and one missed 3 times
C20_Witness ==
  /\ result.op = "getDoctorAlerts"
  /\ result.value.totalAlerts >= 2
  /\ \E m \in DOMAIN Medicines : Medicines[m].stock <= 2
  /\ sent = {}
  /\ db = NULL
  /\ seqHandles = 0
  /\ opens = 0
  /\ callers = [c \in Callers |-> [pc |-> "idle", handle |-> NULL]]
  /\ scheduled = {}
  /\ seqScheduled = 0
  /\ rescheduling = Idle

\* the sum of the rates of the rows, without rounding
RECURSIVE C21_ExactSum(_)
C21_ExactSum(stats) ==
  IF stats = <<>> THEN FromInt(0)
  ELSE ExactAdd(C21_ExactSum(SubSeq(stats, 1, Len(stats) - 1)),
                stats[Len(stats)].adherenceRate)

\* the class of the rows by the exact difference d of the two means: d > 10
\* exactly when the last three rates sum to more than the first three plus 30
C21_Class(stats) ==
  IF Len(stats) < TrendSample THEN "stable"
  ELSE LET recent == C21_ExactSum(Recent(stats))
           older == C21_ExactSum(Older(stats))
           margin == FromInt(TrendSample * TrendThreshold)
       IN  IF FLess(ExactAdd(older, margin), recent) THEN "improving"
           ELSE IF FLess(ExactAdd(recent, margin), older) THEN "declining"
           ELSE "stable"

\* C21: predictAdherenceTrend returns 'stable' for fewer than 3 rates, and
\* otherwise 'improving' iff the mean of the last 3 rates exceeds the mean of
\* the first 3 by more than 10, 'declining' iff it is lower by more than 10,
\* and 'stable' otherwise.
C21_TrendByMeanDifference ==
  result.op = "predictAdherenceTrend" => result.value = C21_Class(result.stats)

\* C22: the rows predictAdherenceTrend(patientId, days) classifies are at most
\* days rows, of strictly increasing dates (one per date, oldest first).
C22_AtMostDaysPointsOnePerDate ==
  result.op = "predictAdherenceTrend" =>
    /\ Len(result.stats) <= result.days
    /\ \A i, j \in DOMAIN result.stats :
         i < j => result.stats[i].date < result.stats[j].date

\* C23: an engine operation during which the store failed rejects: it
\* returns no value in place of the failure, in particular no reminder with
\* isAdaptive = false, meanDelay = 0 and the scheduled time as adaptive time,
\* and no alert list.
C23_StoreFailurePropagates ==
  ("storeFailed" \in DOMAIN result /\ result.storeFailed) =>
    /\ result.rejected
    /\ "value" \notin DOMAIN result

\* C24: with no closeDatabase in between, openDatabaseAsync is invoked at
\* most once, all callers answered hold the same handle, and the handle
\* they hold was opened after the last close.
C24_HandleOpenedOnce ==
  /\ opens <= 1
  /\ \A c, d \in Callers :
       callers[c].pc = "done" /\ callers[d].pc = "done"
         => callers[c].handle = callers[d].handle
  /\ \A c \in Callers :
       callers[c].pc = "done" => callers[c].handle > seqHandles - opens

\* the dates of the trailing window of MAX_DAYS_TO_ANALYZE days ending today
C25_Window == (Today - MAX_DAYS_TO_ANALYZE + 1)..Today

\* C25: the logs calculateMeanDelay analyses are scheduled on the dates of
\* the trailing 5-day window, none before its first date and none after
\* today, so on at most 5 distinct dates.
C25_AnalysedWithinWindow ==
  result.op = "calculateMeanDelay" =>
    LET dates == {DateOf(MedicineLogs[l].scheduledTime) :
                    l \in AnalyzedLogs(result.patientId, result.medicineId)}
    IN  /\ dates \subseteq C25_Window
        /\ Cardinality(dates) <= MAX_DAYS_TO_ANALYZE

\* the taken logs of the patient scheduled in the 30 days up to today
C26_TakenInWindow(patientId) ==
  {l \in LogIds :
     /\ MedicineLogs[l].patientId = patientId
     /\ MedicineLogs[l].status = "taken"
     /\ MedicineLogs[l].takenAt \notin {NULL, InvalidDate}
     /\ MedicineLogs[l].scheduledTime # InvalidDate
     /\ DateOf(MedicineLogs[l].scheduledTime) \in (Today - MonthlyWindowDays)..Today}

C27_MissesInWindow(patientId) ==
  {l \in LogIds :
     /\ MedicineLogs[l].patientId = patientId
     /\ MedicineLogs[l].status \in {"missed", "skipped"}
     /\ MedicineLogs[l].scheduledTime # InvalidDate
     /\ DateOf(MedicineLogs[l].scheduledTime) \in (Today - MonthlyWindowDays)..Today}

\* the hours of each time of day
C27_Hours ==
  [Morning |-> 6..11, Afternoon |-> 12..17, Evening |-> 18..23, Night |-> 0..5]

\* the number of logs scheduled at an hour of the time of day
C27_Count(ids, period) ==
  Cardinality({l \in ids :
     (MedicineLogs[l].scheduledTime % SecondsPerDay) \div 3600 \in C27_Hours[period]})

\* C27: getMostMissedTimePeriod returns the time of day (Morning [6,12),
\* Afternoon [12,18), Evening [18,24), Night [0,6)) holding the most missed
\* or skipped logs of the 30-day window, the earliest of Morning, Afternoon,
\* Evening, Night among equals, and 'No misses recorded' when the window has
\* no missed or skipped log.
C27_MostMissedBucket ==
  result.op = "getMostMissedTimePeriod" =>
    LET ids == C27_MissesInWindow(result.patientId)
        order == <<"Morning", "Afternoon", "Evening", "Night">>
        best == CHOOSE k \in 1..4 :
                  /\ \A j \in 1..4 : C27_Count(ids, order[j]) <= C27_Count(ids, order[k])
                  /\ \A j \in 1..(k - 1) : C27_Count(ids, order[j]) < C27_Count(ids, order[k])
    IN  result.value = IF ids = {} THEN "No misses recorded" ELSE order[best]

\* the logs of ids whose timestamps can be parsed
C28_WellFormed(ids) ==
  {l \in ids : /\ MedicineLogs[l].scheduledTime # InvalidDate
               /\ MedicineLogs[l].takenAt # InvalidDate}

\* the mean, rounded half up, of the late seconds of ids in minutes over n
C28_Mean(ids, n) ==
  IF n = 0 THEN 0 ELSE (2 * C11_LateSeconds(ids) + 60 * n) \div (2 * 60 * n)

\* C28: a log with a timestamp that cannot be parsed is left out entirely:
\* calculateMeanDelay and calculateAverageDelayTime return the mean whose sum
\* and whose divisor are taken over the logs with a parsable takenAt only,
\* getMostMissedTimePeriod counts a log with an unparsable scheduledTime in
\* no time of day, and each of them returns a result.
C28_MalformedLeftOut ==
  /\ result.op = "calculateMeanDelay" =>
       LET read == AnalyzedLogs(result.patientId, result.medicineId)
           good == C28_WellFormed(read)
       IN  ~TooFew(Cardinality(read)) =>
             result.value.meanDelay = C28_Mean(good, Cardinality(good))
  /\ result.op = "calculateAverageDelayTime" =>
       LET good == C28_WellFormed(MonthlyTaken(result.patientId))
           late == {l \in good : MedicineLogs[l].takenAt > MedicineLogs[l].scheduledTime}
       IN  result.value = C28_Mean(late, Cardinality(late))
  /\ result.op = "getMostMissedTimePeriod" =>
       LET read == {l \in LogIds :
                      /\ MedicineLogs[l].patientId = result.patientId
                      /\ MedicineLogs[l].status \in {"missed", "skipped"}}
           good == {l \in C28_WellFormed(read) :
                      DateOf(MedicineLogs[l].scheduledTime) >= Today - MonthlyWindowDays}
           counted == C27_Count(good, "Morning") + C27_Count(good, "Afternoon")
                        + C27_Count(good, "Evening") + C27_Count(good, "Night")
       IN  /\ counted = Cardinality(good)
           /\ result.value = IF good = {} THEN NoMisses
                             ELSE MaxPeriod(good, 1, [maxPeriod |-> "Morning",
                                                      maxCount |-> 0]).maxPeriod

\* C29: the row updateAdherenceStats stores for today holds the rate
\* calculateAdherenceRate returns for the same dose logs, round(100 * taken /
\* total) or 100 without logs today, and the numbers of today's logs and of
\* today's taken logs.
C29_StoredRateIsRate ==
  \A s \in DOMAIN AdherenceStats :
    LET row == AdherenceStats[s]
        rows == {l \in LogIds :
                   /\ MedicineLogs[l].patientId = row.patientId
                   /\ DateOf(MedicineLogs[l].scheduledTime) = row.date}
        taken == {l \in rows : MedicineLogs[l].status = "taken"}
    IN  /\ row.totalDoses = Cardinality(rows)
        /\ row.takenDoses = Cardinality(taken)
        /\ row.adherenceRate = FromInt(AdherenceRate(row.patientId))
        /\ (result.op = "calculateAdherenceRate" /\ result.patientId = row.patientId)
             => row.adherenceRate = FromInt(result.value)

\* the number of clock-times the medicines are configured with
RECURSIVE C30_ClockTimes(_)
C30_ClockTimes(medicines) ==
  IF medicines = <<>> THEN 0
  ELSE Len(Head(medicines).times) + C30_ClockTimes(Tail(medicines))

\* the counters of a run of rescheduleAllAdaptiveReminders that has todo
\* clock-times left account for every other clock-time once
C30_Counts(given, counters, todo) ==
  /\ counters.scheduled + counters.failed + todo = C30_ClockTimes(given)
  /\ counters.adaptiveCount <= counters.scheduled

\* C30: rescheduleAllAdaptiveReminders cancels the notifications scheduled
\* before it schedules any new one and attempts one reminder per configured
\* clock-time of the medicines given: at every point of its loop and in what
\* it returns, scheduled + failed is the number of clock-times attempted,
\* the total of them at the return, and adaptiveCount <= scheduled; while
\* and after it runs alone, the scheduler holds exactly the `scheduled`
\* notifications the run has created.
C30_RescheduleReplacesAll ==
  /\ rescheduling # Idle =>
       /\ C30_Counts(rescheduling.given, rescheduling, Len(rescheduling.todo))
       /\ rescheduling.alone =>
            /\ Cardinality(scheduled) = rescheduling.scheduled
            /\ \A n \in scheduled : n.identifier \in rescheduling.first..seqScheduled
  /\ result.op = "rescheduleAllAdaptiveReminders" =>
       /\ C30_Counts(result.given, result.value, 0)
       /\ (result.alone /\ rescheduling = Idle) =>
            /\ Cardinality(scheduled) = result.value.scheduled
            /\ \A n \in scheduled : n.identifier \in result.first..result.last

\* C30 witness: a run alone that found a notification scheduled, had one
\* attempt fail and one succeed as an adaptive reminder, has returned
C30_Witness ==
  /\ result.op = "rescheduleAllAdaptiveReminders"
  /\ result.alone
  /\ rescheduling = Idle
  /\ result.first > 1
  /\ result.value.failed = 1
  /\ result.value.adaptiveCount = 1
  /\ Cardinality(scheduled) = 1

====
